---- MODULE Spec2Model ----
(***************************************************************************)
(* The box-model layout engine of tools/mathml_to_ascii.py.                *)
(*                                                                         *)
(* A character is a TLA+ string; a text (a Python str) is a sequence of    *)
(* characters.  The non-ASCII glyphs of the source are written by name     *)
(* (BOX_H for U+2500 and so on).  A Box is the record of MathBox; its      *)
(* content is a sequence of rows, each a sequence of characters.  Cell     *)
(* coordinates (x, y) are 0-based as in the source.                        *)
(*                                                                         *)
(* An element (ET.Element) is a record [tag, attrib, text, tail, kids];    *)
(* attrib is a set of <<name, value>> pairs.                               *)
(***************************************************************************)
EXTENDS Integers, Sequences, FiniteSets, TLC

VARIABLES
    use_unicode,  \* MathMLParser.use_unicode
    mathml,       \* the markup handed to parse, NoMarkup for a direct call
    attempts,     \* the calls of ET.fromstring made so far
    elem,         \* the element handed to the layout engine
    box,          \* the MathBox the engine returned
    pc            \* "parse" / "retry" inside parse, "error" once the
                  \* ParseError has left it, "ready" before the layout
                  \* call, "done" / "concat" after it

vars == <<use_unicode, mathml, attempts, elem, box, pc>>

----------------------------------------------------------------------------
(* Glyphs *)

BOX_H        == "BOX_H"          \* U+2500 fraction rule / overline
SUM          == "N_ARY_SUM"      \* U+2211
SQRT         == "SQRT"           \* U+221A
DIAG_TOP     == "DIAG_TOP"       \* U+27CB
DIAG         == "DIAG"           \* U+2571
BRACE_UPPER  == "LBRACE_UPPER"   \* U+23A7
BRACE_MIDDLE == "LBRACE_MIDDLE"  \* U+23A8
BRACE_LOWER  == "LBRACE_LOWER"   \* U+23A9
BRACE_EXT    == "BRACE_EXT"      \* U+23AA
LPAREN_UPPER == "LPAREN_UPPER"   \* U+239B
LPAREN_EXT   == "LPAREN_EXT"     \* U+239C
LPAREN_LOWER == "LPAREN_LOWER"   \* U+239D
RPAREN_UPPER == "RPAREN_UPPER"   \* U+239E
RPAREN_EXT   == "RPAREN_EXT"     \* U+239F
RPAREN_LOWER == "RPAREN_LOWER"   \* U+23A0
LBRACK_UPPER == "LBRACK_UPPER"   \* U+23A1
LBRACK_EXT   == "LBRACK_EXT"     \* U+23A2
LBRACK_LOWER == "LBRACK_LOWER"   \* U+23A3
RBRACK_UPPER == "RBRACK_UPPER"   \* U+23A4
RBRACK_EXT   == "RBRACK_EXT"     \* U+23A5
RBRACK_LOWER == "RBRACK_LOWER"   \* U+23A6

----------------------------------------------------------------------------
(* Arithmetic and text helpers (Python built-ins) *)

Max2(a, b) == IF a >= b THEN a ELSE b

RECURSIVE SeqSum(_)
SeqSum(s) == IF s = <<>> THEN 0 ELSE Head(s) + SeqSum(Tail(s))

RECURSIVE SeqMax(_)
SeqMax(s) == IF Len(s) = 1 THEN s[1] ELSE Max2(Head(s), SeqMax(Tail(s)))

\* ''.join(...) over the rows of a content grid
RECURSIVE Join(_)
Join(rows) == IF rows = <<>> THEN <<>> ELSE Head(rows) \o Join(Tail(rows))

RECURSIVE lstrip(_)
lstrip(text) ==
    IF text # <<>> /\ Head(text) = " " THEN lstrip(Tail(text)) ELSE text

RECURSIVE rstrip(_)
rstrip(text) ==
    IF text # <<>> /\ text[Len(text)] = " "
    THEN rstrip(SubSeq(text, 1, Len(text) - 1))
    ELSE text

\* str.strip()
strip(text) == rstrip(lstrip(text))

\* sub in text
Contains(text, sub) ==
    \E i \in 0..(Len(text) - Len(sub)) : SubSeq(text, i + 1, i + Len(sub)) = sub

\* str.lower() on the letters the model uses
lower(text) ==
    [i \in 1..Len(text) |->
        CASE text[i] = "W" -> "w"
          [] text[i] = "H" -> "h"
          [] text[i] = "E" -> "e"
          [] text[i] = "R" -> "r"
          [] OTHER -> text[i]]

----------------------------------------------------------------------------
(* MathBox *)

\* MathBox.__init__(text)
MathBox(text) ==
    [width |-> Len(text), height |-> 1, baseline |-> 0, content |-> <<text>>]

\* MathBox.get_char
get_char(b, x, y) ==
    IF 0 <= y /\ y < b.height /\ 0 <= x /\ x < b.width
    THEN b.content[y + 1][x + 1]
    ELSE " "

\* MathBox.set_char
set_char(b, x, y, char) ==
    IF 0 <= y /\ y < b.height /\ 0 <= x /\ x < b.width
    THEN [b EXCEPT !.content[y + 1][x + 1] = char]
    ELSE b

\* MathBox.create_empty
create_empty(width, height, baseline) ==
    [width |-> width, height |-> height, baseline |-> baseline,
     content |-> [y \in 1..height |-> [x \in 1..width |-> " "]]]

\* The copy loop of every layout rule:
\*   for y in range(src.height): for x in range(src.width):
\*       result.set_char(x + x_offset, y + y_offset, src.get_char(x, y))
\* Each target cell is written at most once by one loop, so the loop is the
\* grid below; cells outside result are dropped by set_char's bounds check.
place(result, src, x_offset, y_offset) ==
    [result EXCEPT !.content =
        [Y \in 1..result.height |-> [X \in 1..result.width |->
            LET x == X - 1 - x_offset
                y == Y - 1 - y_offset
            IN  IF 0 <= x /\ x < src.width /\ 0 <= y /\ y < src.height
                THEN get_char(src, x, y)
                ELSE result.content[Y][X]]]]

\* The same loop guarded by `if char and char != ' '`
place_nonblank(result, src, x_offset, y_offset) ==
    [result EXCEPT !.content =
        [Y \in 1..result.height |-> [X \in 1..result.width |->
            LET x == X - 1 - x_offset
                y == Y - 1 - y_offset
            IN  IF /\ 0 <= x /\ x < src.width /\ 0 <= y /\ y < src.height
                   /\ get_char(src, x, y) # " "
                THEN get_char(src, x, y)
                ELSE result.content[Y][X]]]]

----------------------------------------------------------------------------
(* horizontal_concat *)

\* boxes = [b for b in boxes if b.width > 0 and b.height > 0]
concat_filter(boxes) ==
    SelectSeq(boxes, LAMBDA b : b.width > 0 /\ b.height > 0)

\* a faulty variant of concat_width: one spare column at the right
concat_width_spare_column(boxes) ==
    SeqSum([i \in 1..Len(boxes) |-> boxes[i].width]) + 1

\* width = sum(box.width for box in boxes)
concat_width(boxes) == SeqSum([i \in 1..Len(boxes) |-> boxes[i].width])

concat_max_above(boxes) == SeqMax([i \in 1..Len(boxes) |-> boxes[i].baseline])

\* a faulty variant of concat_max_below: the tallest box, whatever its
\* baseline
concat_max_height(boxes) == SeqMax([i \in 1..Len(boxes) |-> boxes[i].height])

concat_max_below(boxes) ==
    SeqMax([i \in 1..Len(boxes) |-> boxes[i].height - boxes[i].baseline])

\* a faulty variant of concat_y_offset: every box starts at the top row
concat_y_offset_top(baseline, b) == 0

\* y_offset = baseline - box.baseline
concat_y_offset(baseline, b) == baseline - b.baseline

\* the placement loop, from box i on, with the x_offset reached so far
RECURSIVE concat_place(_, _, _, _)
concat_place(result, boxes, i, x_offset) ==
    IF i > Len(boxes) THEN result
    ELSE concat_place(
            place_nonblank(result, boxes[i], x_offset,
                           concat_y_offset(result.baseline, boxes[i])),
            boxes, i + 1, x_offset + boxes[i].width)

\* a faulty variant of concat_single: the box moved to a baseline of 0
concat_single_rebased(boxes) == [boxes[1] EXCEPT !.baseline = 0]

concat_single(boxes) == boxes[1]

\* a faulty variant of concat_none: a box of no rows
concat_none_no_rows == create_empty(0, 0, 0)

concat_none == MathBox(<<>>)

horizontal_concat(all_boxes) ==
    LET boxes == concat_filter(all_boxes) IN
    IF boxes = <<>> THEN concat_none
    ELSE IF Len(boxes) = 1 THEN concat_single(boxes)
    ELSE LET width == concat_width(boxes)
             max_above == concat_max_above(boxes)
             max_below == concat_max_below(boxes)
             height == max_above + max_below
             baseline == max_above
         IN  concat_place(create_empty(width, height, baseline), boxes, 1, 0)

----------------------------------------------------------------------------
(* Elements (xml.etree.ElementTree.Element) *)

Element(tag, attrib, text, children, tail) ==
    [tag |-> tag, attrib |-> attrib, text |-> text, kids |-> children,
     tail |-> tail]

\* elem.get(name, default)
get(e, name, default) ==
    IF \E p \in e.attrib : p[1] = name
    THEN (CHOOSE p \in e.attrib : p[1] = name)[2]
    ELSE default

\* len(elem)
len(e) == Len(e.kids)

RECURSIVE process_element(_)

\* MathBox('?'), the placeholder of an arity violation
placeholder == MathBox(<<"?">>)

----------------------------------------------------------------------------
(* Glyph tables *)

Digits == {"0", "1", "2", "3", "4", "5", "6", "7", "8", "9"}

\* keys of self.unicode_subscripts
subscript_keys ==
    Digits \cup {"a", "e", "i", "o", "u", "x", "h", "k", "l", "m", "n", "p",
                 "r", "s", "t", "v", "SCHWA", "+", "-", "=", "(", ")", ",", " "}

\* self.unicode_subscripts[char]; ',' and ' ' map to themselves
unicode_subscripts(char) ==
    IF char \in {",", " "} THEN char ELSE "sub_" \o char

\* keys of self.unicode_superscripts
superscript_keys ==
    Digits \cup {"a", "b", "c", "d", "e", "f", "g", "h", "i", "j", "k", "l",
                 "m", "n", "o", "p", "r", "s", "t", "u", "v", "w", "x", "y",
                 "z", "A", "B", "D", "E", "G", "H", "I", "J", "K", "L", "M",
                 "N", "O", "P", "R", "T", "U", "V", "W", "+", "-", "=", "(",
                 ")"}

unicode_superscripts(char) == "sup_" \o char

\* Optional[str]
None == [some |-> FALSE, val |-> <<>>]
Some(text) == [some |-> TRUE, val |-> text]
\* truth value of an Optional[str] in `if unicode_sub:`
truthy(opt) == opt.some /\ opt.val # <<>>

\* a faulty variant of try_unicode_subscript: use_unicode is not consulted
try_unicode_subscript_always(text) ==
    IF text = <<>> THEN None
    ELSE IF \A i \in 1..Len(text) : text[i] \in subscript_keys
         THEN Some([i \in 1..Len(text) |-> unicode_subscripts(text[i])])
         ELSE Some(<<"_">> \o text)

\* a faulty variant of try_unicode_subscript: no underscore form
try_unicode_subscript_strict(text) ==
    IF ~use_unicode \/ text = <<>> THEN None
    ELSE IF \A i \in 1..Len(text) : text[i] \in subscript_keys
         THEN Some([i \in 1..Len(text) |-> unicode_subscripts(text[i])])
         ELSE None

try_unicode_subscript(text) ==
    IF ~use_unicode \/ text = <<>> THEN None
    ELSE IF \A i \in 1..Len(text) : text[i] \in subscript_keys
         THEN Some([i \in 1..Len(text) |-> unicode_subscripts(text[i])])
         ELSE Some(<<"_">> \o text)

\* a faulty variant of try_unicode_superscript: use_unicode is not consulted
try_unicode_superscript_always(text) ==
    IF text = <<>> THEN None
    ELSE IF Len(text) = 1 /\ text[1] \in {"'", "\"", "*"} THEN Some(text)
    ELSE IF \A i \in 1..Len(text) : text[i] \in superscript_keys
         THEN Some([i \in 1..Len(text) |-> unicode_superscripts(text[i])])
         ELSE None

try_unicode_superscript(text) ==
    IF ~use_unicode \/ text = <<>> THEN None
    ELSE IF Len(text) = 1 /\ text[1] \in {"'", "\"", "*"} THEN Some(text)
    ELSE IF \A i \in 1..Len(text) : text[i] \in superscript_keys
         THEN Some([i \in 1..Len(text) |-> unicode_superscripts(text[i])])
         ELSE None

----------------------------------------------------------------------------
(* Tokens: the mi, mo, mn, mtext and mspace branches of process_element *)

prefix_operators ==
    {<<"l", "o", "g">>, <<"l", "n">>, <<"s", "i", "n">>, <<"c", "o", "s">>,
     <<"t", "a", "n">>, <<"e", "x", "p">>}

binary_operators == {<<"=">>, <<"+">>, <<"-">>, <<"*">>, <<"/">>, <<"NE">>}

process_mo(e) ==
    LET text == e.text
        form == get(e, "form", <<>>)
    IN  IF form = <<"p", "r", "e", "f", "i", "x">> \/ text \in prefix_operators
        THEN MathBox(text)
        ELSE IF text \in binary_operators
        THEN MathBox(<<" ">> \o text \o <<" ">>)
        ELSE MathBox(text)

----------------------------------------------------------------------------
(* process_fraction *)

\* a faulty variant of fraction_arity_ok: further children are let through
fraction_arity_at_least(e) == len(e) >= 2

fraction_arity_ok(e) == len(e) = 2

is_invisible(e) == get(e, "linethickness", <<>>) = <<"0", "p", "t">>

\* a faulty variant of center_offset: the extra column goes to the left
center_offset_rounded_up(width, child) == (width - child.width + 1) \div 2

\* the centering offset (width - child.width) // 2
center_offset(width, child) == (width - child.width) \div 2

\* a faulty variant of invisible_fraction: the baseline of the visible form
invisible_fraction_low_baseline(numerator, denominator) ==
    LET width == Max2(numerator.width, denominator.width)
        height == numerator.height + denominator.height
        baseline == numerator.height
        r0 == create_empty(width, height, baseline)
        r1 == place(r0, numerator, center_offset(width, numerator), 0)
    IN  place(r1, denominator, center_offset(width, denominator),
              numerator.height)

invisible_fraction(numerator, denominator) ==
    LET width == Max2(numerator.width, denominator.width)
        height == numerator.height + denominator.height
        baseline == numerator.height - 1
        r0 == create_empty(width, height, baseline)
        r1 == place(r0, numerator, center_offset(width, numerator), 0)
    IN  place(r1, denominator, center_offset(width, denominator),
              numerator.height)

\* for x in range(width): result.set_char(x, baseline, BOX_H)
draw_fraction_bar(result) ==
    [result EXCEPT !.content =
        [Y \in 1..result.height |-> [X \in 1..result.width |->
            IF Y - 1 = result.baseline THEN BOX_H
            ELSE result.content[Y][X]]]]

visible_fraction(numerator, denominator) ==
    LET width == Max2(numerator.width, denominator.width)
        height == numerator.height + 1 + denominator.height
        baseline == numerator.height
        r0 == create_empty(width, height, baseline)
        r1 == place(r0, numerator, center_offset(width, numerator), 0)
        r2 == draw_fraction_bar(r1)
    IN  place(r2, denominator, center_offset(width, denominator),
              baseline + 1)

process_fraction(e) ==
    IF ~fraction_arity_ok(e) THEN placeholder
    ELSE LET numerator == process_element(e.kids[1])
             denominator == process_element(e.kids[2])
         IN  IF is_invisible(e)
             THEN invisible_fraction(numerator, denominator)
             ELSE visible_fraction(numerator, denominator)

----------------------------------------------------------------------------
(* process_subscript, process_superscript, process_subsup *)

\* base.height == 1 and base.baseline == 0 and
\* operand.height == 1 and operand.baseline == 0
simple_text(base, operand) ==
    /\ base.height = 1 /\ base.baseline = 0
    /\ operand.height = 1 /\ operand.baseline = 0

\* a faulty variant of subscript_height: the rows of the base only
subscript_height_of_base(base, subscript) == base.height

\* height = max(base.height, base.baseline + 1 + subscript.height)
subscript_height(base, subscript) ==
    Max2(base.height, base.baseline + 1 + subscript.height)

subscript_multiline(base, subscript) ==
    LET width == base.width + subscript.width
        height == subscript_height(base, subscript)
        baseline == base.baseline
        r0 == create_empty(width, height, baseline)
        r1 == place(r0, base, 0, 0)
        sub_y_offset == base.baseline + 1
    IN  \* `if sub_y_offset + y < height` is set_char's own bounds check
        place(r1, subscript, base.width, sub_y_offset)

subscript_arity_ok(e) == len(e) = 2

process_subscript(e) ==
    IF ~subscript_arity_ok(e) THEN placeholder
    ELSE LET base == process_element(e.kids[1])
             subscript == process_element(e.kids[2])
             unicode_sub ==
                 IF simple_text(base, subscript)
                 THEN try_unicode_subscript(strip(subscript.content[1]))
                 ELSE None
         IN  IF simple_text(base, subscript) /\ truthy(unicode_sub)
             THEN MathBox(strip(base.content[1]) \o unicode_sub.val)
             ELSE subscript_multiline(base, subscript)

superscript_multiline(base, superscript) ==
    LET width == base.width + superscript.width
        height == superscript.height + base.height
        baseline == superscript.height + base.baseline
        r0 == create_empty(width, height, baseline)
        r1 == place(r0, superscript, base.width, 0)
    IN  place(r1, base, 0, superscript.height)

superscript_arity_ok(e) == len(e) = 2

process_superscript(e) ==
    IF ~superscript_arity_ok(e) THEN placeholder
    ELSE LET base == process_element(e.kids[1])
             superscript == process_element(e.kids[2])
             unicode_sup ==
                 IF simple_text(base, superscript)
                 THEN try_unicode_superscript(strip(superscript.content[1]))
                 ELSE None
         IN  IF simple_text(base, superscript) /\ truthy(unicode_sup)
             THEN MathBox(strip(base.content[1]) \o unicode_sup.val)
             ELSE superscript_multiline(base, superscript)

\* a faulty variant of subsup_baseline: the rows above the base left out
subsup_baseline_of_base(base, superscript) == base.baseline

\* baseline = superscript.height + base.baseline
subsup_baseline(base, superscript) == superscript.height + base.baseline

\* the summation branch: superscript, base, subscript stacked and centered
subsup_stacked(base, subscript, superscript) ==
    LET width == Max2(base.width, Max2(subscript.width, superscript.width))
        height == superscript.height + base.height + subscript.height
        baseline == subsup_baseline(base, superscript)
        r0 == create_empty(width, height, baseline)
        r1 == place(r0, superscript, center_offset(width, superscript), 0)
        r2 == place(r1, base, center_offset(width, base), superscript.height)
    IN  place(r2, subscript, center_offset(width, subscript),
              superscript.height + base.height)

\* a faulty variant of subsup_diagonal_width: the operands side by side
subsup_diagonal_width_in_line(base, subscript, superscript) ==
    base.width + subscript.width + superscript.width

\* width = base.width + max(subscript.width, superscript.width)
subsup_diagonal_width(base, subscript, superscript) ==
    base.width + Max2(subscript.width, superscript.width)

subsup_diagonal(base, subscript, superscript) ==
    LET width == subsup_diagonal_width(base, subscript, superscript)
        height == superscript.height + base.height + subscript.height
        baseline == superscript.height + base.baseline
        r0 == create_empty(width, height, baseline)
        r1 == place(r0, base, 0, superscript.height)
        r2 == place(r1, superscript, base.width, 0)
    IN  place(r2, subscript, base.width, superscript.height + base.height)

subsup_arity_ok(e) == len(e) = 3

process_subsup(e) ==
    IF ~subsup_arity_ok(e) THEN placeholder
    ELSE LET base == process_element(e.kids[1])
             subscript == process_element(e.kids[2])
             superscript == process_element(e.kids[3])
             base_text == strip(Join(base.content))
             is_summation == Contains(base_text, <<SUM>>)
             single == base.height = 1 /\ subscript.height = 1
                       /\ superscript.height = 1
             unicode_sub ==
                 IF single
                 THEN try_unicode_subscript(strip(subscript.content[1]))
                 ELSE None
             unicode_sup ==
                 IF single
                 THEN try_unicode_superscript(strip(superscript.content[1]))
                 ELSE None
         IN  IF is_summation
             THEN subsup_stacked(base, subscript, superscript)
             ELSE IF single /\ truthy(unicode_sub) /\ truthy(unicode_sup)
             THEN MathBox(strip(base.content[1]) \o unicode_sub.val
                          \o unicode_sup.val)
             ELSE subsup_diagonal(base, subscript, superscript)

----------------------------------------------------------------------------
(* process_under, process_underover *)

\* a faulty variant of under_is_summation: the text is not looked at
under_is_summation_never(e) == FALSE

\* is_summation of process_under / process_underover: read from the text of
\* the first child element, not from its box
under_is_summation(e) ==
    Len(e.kids[1].text) > 0 /\ Contains(e.kids[1].text, <<SUM>>)

under_arity_ok(e) == len(e) = 2

process_under(e) ==
    IF ~under_arity_ok(e) THEN placeholder
    ELSE LET base == process_element(e.kids[1])
             under == process_element(e.kids[2])
             w0 == Max2(base.width, under.width)
             width == IF under_is_summation(e) THEN Max2(w0, 2) ELSE w0
             height == base.height + under.height
             baseline == base.baseline
             r0 == create_empty(width, height, baseline)
             r1 == place(r0, base, center_offset(width, base), 0)
         IN  place(r1, under, center_offset(width, under), base.height)

underover_arity_ok(e) == len(e) = 3

\* a faulty variant of underover_baseline: the rows of over left out
underover_baseline_of_base(base, over) == base.baseline

\* baseline = over.height + base.baseline
underover_baseline(base, over) == over.height + base.baseline

process_underover(e) ==
    IF ~underover_arity_ok(e) THEN placeholder
    ELSE LET base == process_element(e.kids[1])
             under == process_element(e.kids[2])
             over == process_element(e.kids[3])
             w0 == Max2(base.width, Max2(under.width, over.width))
             width == IF under_is_summation(e) THEN Max2(w0, 2) ELSE w0
             height == over.height + base.height + under.height
             baseline == underover_baseline(base, over)
             r0 == create_empty(width, height, baseline)
             r1 == place(r0, over, center_offset(width, over), 0)
             r2 == place(r1, base, center_offset(width, base), over.height)
         IN  place(r2, under, center_offset(width, under),
                   over.height + base.height)

----------------------------------------------------------------------------
(* process_square_root, process_nth_root *)

\* char * n
Rep(char, n) == [i \in 1..n |-> char]

\* generate_sqrt_radical(height, length): the lines of the radical
generate_sqrt_radical(height0, length) ==
    LET height == IF height0 < 3 THEN 3 ELSE height0
        top_padding == height + 1
        top == Rep(" ", top_padding) \o <<DIAG_TOP>> \o Rep(BOX_H, length)
        middle == [i \in 1..(height - 3) |->
                      Rep(" ", height + 1 - i) \o <<DIAG, " ", " ">>]
        connecting == IF height > 2
                      THEN << <<"_", " ", " ", DIAG, " ", " ">> >>
                      ELSE <<>>
        tail == <<" ", "\\", DIAG, " ", " ">>
    IN  <<top>> \o middle \o connecting \o <<tail>>

\* for y, line in enumerate(lines): for x, char in enumerate(line):
\*     if x < total_width and char != ' ': result.set_char(x, y, char)
stamp_lines(result, lines) ==
    [result EXCEPT !.content =
        [Y \in 1..result.height |-> [X \in 1..result.width |->
            IF Y <= Len(lines) /\ X <= Len(lines[Y]) /\ lines[Y][X] # " "
            THEN lines[Y][X]
            ELSE result.content[Y][X]]]]

\* a faulty variant of sqrt_content_x_offset: the offset of a 2-row formula
sqrt_content_x_offset_of_two_rows(formula_height) == 5

\* content_x_offset = formula_height + 3
sqrt_content_x_offset(formula_height) == formula_height + 3

sqrt_multiline(inner) ==
    LET formula_width == inner.width
        formula_height == inner.height
        radical_lines ==
            generate_sqrt_radical(formula_height + 1, formula_width + 4)
        radical_width == Len(radical_lines[1])
        total_width == Max2(radical_width, formula_width + 10)
        total_height == Len(radical_lines)
        baseline == inner.baseline + 1
        r0 == create_empty(total_width, total_height, baseline)
        r1 == stamp_lines(r0, radical_lines)
    IN  place_nonblank(r1, inner, sqrt_content_x_offset(formula_height), 1)

process_square_root(e) ==
    IF len(e) = 0 THEN MathBox(<<SQRT>>)
    ELSE LET inner ==
                 IF len(e) = 1 THEN process_element(e.kids[1])
                 ELSE horizontal_concat(
                        [i \in 1..len(e) |-> process_element(e.kids[i])])
         IN  IF inner.height = 1
             THEN MathBox(<<SQRT, "(">> \o strip(inner.content[1]) \o <<")">>)
             ELSE sqrt_multiline(inner)

\* the radical lines of process_nth_root, before the index is prepended
nth_root_lines(formula_width, formula_height) ==
    IF formula_height = 3
    THEN << Rep(" ", 5) \o <<DIAG_TOP>> \o Rep(BOX_H, formula_width + 4),
            Rep(" ", 4) \o <<DIAG, " ", " ">>,
            <<"_", " ", " ", DIAG, " ", " ">>,
            <<" ", "\\", DIAG, " ", " ">> >>
    ELSE LET radical_line_height == formula_height + 2
             top_padding == radical_line_height - 1
             top == Rep(" ", top_padding) \o <<DIAG_TOP>>
                    \o Rep(BOX_H, formula_width + 4)
             rest == [i \in 1..(radical_line_height - 1) |->
                        LET padding == radical_line_height - 1 - i IN
                        IF i = radical_line_height - 1
                        THEN Rep(" ", padding) \o <<"\\", DIAG, " ", " ">>
                        ELSE IF i = radical_line_height - 2
                        THEN <<"_">> \o Rep(" ", padding) \o <<DIAG, " ", " ">>
                        ELSE Rep(" ", padding + 1) \o <<DIAG, " ", " ">>]
         IN  <<top>> \o rest

\* line.lstrip().startswith("_")
starts_with_underscore(line) ==
    lstrip(line) # <<>> /\ Head(lstrip(line)) = "_"

\* modified_lines: the index goes on the underscore line, the others are
\* padded by index_width + 1
nth_root_modified_lines(lines, index_text) ==
    [i \in 1..Len(lines) |->
        IF starts_with_underscore(lines[i])
        THEN <<" ">> \o index_text \o lines[i]
        ELSE Rep(" ", Len(index_text) + 1) \o lines[i]]

\* a faulty variant of nth_root_content_x_offset: the offset of a square
\* root, the index not counted
nth_root_content_x_offset_of_sqrt(formula_height, index_width) ==
    formula_height + 3

\* a faulty variant of nth_root_content_x_offset: the blank before the index
\* is not counted
nth_root_content_x_offset_short(formula_height, index_width) ==
    formula_height + 3 + index_width

nth_root_content_x_offset(formula_height, index_width) ==
    IF formula_height = 3 THEN 7 + index_width
    ELSE formula_height + 3 + index_width + 1

nth_root_multiline(radicand, index) ==
    LET formula_width == radicand.width
        formula_height == radicand.height
        index_text == strip(Join(index.content))
        index_width == Len(index_text)
        modified_lines ==
            nth_root_modified_lines(
                nth_root_lines(formula_width, formula_height), index_text)
        radical_width ==
            SeqMax([i \in 1..Len(modified_lines) |-> Len(modified_lines[i])])
        total_width == Max2(radical_width, formula_width + 10 + index_width)
        total_height == Max2(Len(modified_lines), 1 + radicand.height)
        baseline == radicand.baseline + 1
        r0 == create_empty(total_width, total_height, baseline)
        r1 == stamp_lines(r0, modified_lines)
    IN  place_nonblank(r1, radicand,
            nth_root_content_x_offset(formula_height, index_width), 1)

nth_root_arity_ok(e) == len(e) = 2

\* a faulty variant of nth_root_single_line: the index is not looked at
nth_root_single_line_radicand(radicand, index) == radicand.height = 1

\* if radicand.height == 1 and index.height == 1:
nth_root_single_line(radicand, index) ==
    radicand.height = 1 /\ index.height = 1

process_nth_root(e) ==
    IF ~nth_root_arity_ok(e) THEN placeholder
    ELSE LET radicand == process_element(e.kids[1])
             index == process_element(e.kids[2])
             radicand_text == strip(radicand.content[1])
             index_text == strip(index.content[1])
             unicode_index == try_unicode_superscript(index_text)
         IN  IF nth_root_single_line(radicand, index)
             THEN IF truthy(unicode_index)
                  THEN MathBox(unicode_index.val \o <<SQRT, "(">>
                               \o radicand_text \o <<")">>)
                  ELSE MathBox(<<"[">> \o index_text \o <<"]", SQRT, "(">>
                               \o radicand_text \o <<")">>)
             ELSE nth_root_multiline(radicand, index)

----------------------------------------------------------------------------
(* process_table, process_table_row, process_table_cell *)

WHERE == <<"w", "h", "e", "r", "e">>

process_table_cell(e) ==
    LET all == [i \in 1..len(e) |-> process_element(e.kids[i])]
        boxes == SelectSeq(all, LAMBDA b : b.width > 0)
    IN  IF len(e) > 0 /\ boxes # <<>> THEN horizontal_concat(boxes)
        ELSE IF e.text # <<>> THEN MathBox(e.text)
        ELSE MathBox(<<>>)

\* the 2-space MathBox('  ') put between cells and after a fraction
two_spaces == MathBox(<<" ", " ">>)

process_table_row(e) ==
    LET tds == SelectSeq(e.kids, LAMBDA c : c.tag = "mtd")
        cells == [i \in 1..Len(tds) |-> process_table_cell(tds[i])]
        boxes_with_spacing ==
            Join([i \in 1..Len(cells) |->
                    IF i < Len(cells) THEN <<cells[i], two_spaces>>
                    ELSE <<cells[i]>>])
    IN  IF cells = <<>> THEN MathBox(<<>>)
        ELSE horizontal_concat(boxes_with_spacing)

\* the loop that sets has_where_clause: every mtr child, every mtd in it,
\* every child element of that mtd
where_text_found(e) ==
    \E i \in 1..len(e) :
        /\ e.kids[i].tag = "mtr"
        /\ \E j \in 1..len(e.kids[i]) :
            /\ e.kids[i].kids[j].tag = "mtd"
            /\ \E k \in 1..len(e.kids[i].kids[j]) :
                Contains(lower(e.kids[i].kids[j].kids[k].text), WHERE)

has_where_clause(e, rows) == Len(rows) >= 2 /\ where_text_found(e)

table_total_height(rows, has_where) ==
    SeqSum([i \in 1..Len(rows) |-> rows[i].height])
        + (IF has_where /\ Len(rows) >= 2 THEN 1 ELSE 0)

\* a faulty variant of table_x_offset: every row starts at column 0
table_x_offset_left(max_width, row) == 0

\* x_offset = (max_width - row.width) // 2
table_x_offset(max_width, row) == (max_width - row.width) \div 2

\* the placement loop from row i (1-based) on, with the y_offset reached
RECURSIVE table_place(_, _, _, _, _)
table_place(result, rows, i, y_offset0, has_where) ==
    IF i > Len(rows) THEN result
    ELSE LET y_offset == IF has_where /\ i - 1 = 1 THEN y_offset0 + 1
                         ELSE y_offset0
             x_offset == table_x_offset(result.width, rows[i])
         IN  table_place(place_nonblank(result, rows[i], x_offset, y_offset),
                         rows, i + 1, y_offset + rows[i].height, has_where)

\* a faulty variant of table_baseline: the middle rounded up
table_baseline_rounded_up(total_height) == (total_height + 1) \div 2

table_baseline(total_height) == total_height \div 2

process_table(e) ==
    LET trs == SelectSeq(e.kids, LAMBDA c : c.tag = "mtr")
        rows == [i \in 1..Len(trs) |-> process_table_row(trs[i])]
        max_width == SeqMax(<<0>> \o [i \in 1..Len(rows) |-> rows[i].width])
        has_where == has_where_clause(e, rows)
        total_height == table_total_height(rows, has_where)
        r0 == create_empty(max_width, total_height, 0)
        r1 == table_place(r0, rows, 1, 0, has_where)
    IN  IF rows = <<>> THEN MathBox(<<>>)
        ELSE [r1 EXCEPT !.baseline = table_baseline(total_height)]

----------------------------------------------------------------------------
(* process_fenced *)

\* for y in range(height): result.set_char(x, y, glyphs[y]);
\* glyphs lists the glyph of each row, "" where nothing is drawn
draw_column(result, x, glyphs) ==
    [result EXCEPT !.content =
        [Y \in 1..result.height |-> [X \in 1..result.width |->
            IF X - 1 = x /\ glyphs[Y] # ""
            THEN glyphs[Y]
            ELSE result.content[Y][X]]]]

\* a faulty variant of brace_glyph: the middle piece one row up on an even
\* height
brace_glyph_middle_up(height, y) ==
    IF height = 1 THEN "{"
    ELSE IF y = height - 1 THEN BRACE_LOWER
    ELSE IF y = 0 THEN BRACE_UPPER
    ELSE IF y = (height - 1) \div 2 THEN BRACE_MIDDLE
    ELSE BRACE_EXT

\* the glyph create_multi_line_brace leaves on row y of column 0
brace_glyph(height, y) ==
    IF height = 1 THEN "{"
    ELSE IF height = 2 THEN (IF y = 0 THEN BRACE_UPPER ELSE BRACE_LOWER)
    ELSE IF height = 3
    THEN (IF y = 0 THEN BRACE_UPPER
          ELSE IF y = 1 THEN BRACE_MIDDLE ELSE BRACE_LOWER)
    ELSE IF y = height - 1 THEN BRACE_LOWER
    ELSE IF y = 0 THEN BRACE_UPPER
    ELSE IF y = height \div 2 THEN BRACE_MIDDLE
    ELSE BRACE_EXT

create_multi_line_brace(content) ==
    LET height == content.height
        width == content.width + 2
        r0 == create_empty(width, height, content.baseline)
        r1 == draw_column(r0, 0,
                          [Y \in 1..height |-> brace_glyph(height, Y - 1)])
    IN  place_nonblank(r1, content, 1, 0)

\* a faulty variant of three_part: the upper piece on the middle rows
three_part_no_middle(height, y, top, middle, bottom) ==
    IF y = height - 1 THEN bottom ELSE top

\* upper / middle / lower, the last set_char of a row winning
three_part(height, y, top, middle, bottom) ==
    IF y = height - 1 THEN bottom ELSE IF y = 0 THEN top ELSE middle

\* "" where the source draws nothing
\* a faulty variant of close_glyph: any other closing delimiter is drawn as
\* a parenthesis
close_glyph_default_paren(close_delim, height, y) ==
    IF close_delim = <<"]">>
    THEN three_part(height, y, RBRACK_UPPER, RBRACK_EXT, RBRACK_LOWER)
    ELSE three_part(height, y, RPAREN_UPPER, RPAREN_EXT, RPAREN_LOWER)

open_glyph(open_delim, height, y) ==
    IF open_delim = <<"(">>
    THEN three_part(height, y, LPAREN_UPPER, LPAREN_EXT, LPAREN_LOWER)
    ELSE IF open_delim = <<"[">>
    THEN three_part(height, y, LBRACK_UPPER, LBRACK_EXT, LBRACK_LOWER)
    ELSE ""

close_glyph(close_delim, height, y) ==
    IF close_delim = <<")">>
    THEN three_part(height, y, RPAREN_UPPER, RPAREN_EXT, RPAREN_LOWER)
    ELSE IF close_delim = <<"]">>
    THEN three_part(height, y, RBRACK_UPPER, RBRACK_EXT, RBRACK_LOWER)
    ELSE ""

create_multi_line_delimiters(content, open_delim, close_delim) ==
    LET height == content.height
        width == content.width + 2
        r0 == create_empty(width, height, content.baseline)
        r1 == draw_column(r0, 0,
                [Y \in 1..height |-> open_glyph(open_delim, height, Y - 1)])
        r2 == place_nonblank(r1, content, 1, 0)
    IN  draw_column(r2, width - 1,
                [Y \in 1..height |-> close_glyph(close_delim, height, Y - 1)])

\* the boxes of a fenced group: each non-empty child, followed by the
\* separator unless it is the last child
fenced_boxes(e, separators) ==
    Join([i \in 1..len(e) |->
            LET child_box == process_element(e.kids[i]) IN
            IF child_box.width > 0
            THEN IF i - 1 < len(e) - 1 /\ separators # <<>>
                 THEN <<child_box, MathBox(separators)>>
                 ELSE <<child_box>>
            ELSE <<>>])

process_fenced(e) ==
    LET open_delim == get(e, "open", <<"(">>)
        close_delim == get(e, "close", <<")">>)
        separators == get(e, "separators", <<",">>)
        boxes == fenced_boxes(e, separators)
        content_box == IF len(e) > 0 /\ boxes # <<>>
                       THEN horizontal_concat(boxes)
                       ELSE MathBox(<<>>)
    IN  IF open_delim = <<"{">> /\ content_box.height > 1
        THEN create_multi_line_brace(content_box)
        ELSE IF content_box.height = 1
        THEN MathBox(open_delim \o content_box.content[1] \o close_delim)
        ELSE create_multi_line_delimiters(content_box, open_delim, close_delim)

----------------------------------------------------------------------------
(* process_mrow and the dispatch of process_element *)

\* a faulty variant of spaced_after_fraction: 'munder' left out
spaced_after_fraction_no_under == {"msubsup", "munderover", "mover"}

\* the tags after a fraction that get the 2-space separator
spaced_after_fraction == {"msubsup", "munderover", "munder", "mover"}

\* boxes appended for child i: separator, the child's box, its tail
mrow_child_boxes(e, i) ==
    LET child == e.kids[i]
        child_box == process_element(child)
        separator ==
            IF i > 1 /\ e.kids[i - 1].tag = "mfrac"
               /\ child.tag \in spaced_after_fraction
            THEN <<two_spaces>> ELSE <<>>
        own == IF child_box.width > 0 THEN <<child_box>> ELSE <<>>
        tail == IF strip(child.tail) # <<>>
                THEN <<MathBox(strip(child.tail))>> ELSE <<>>
    IN  separator \o own \o tail

process_mrow(e) ==
    LET leading == IF strip(e.text) # <<>>
                   THEN <<MathBox(strip(e.text))>> ELSE <<>>
        boxes == leading \o Join([i \in 1..len(e) |-> mrow_child_boxes(e, i)])
    IN  IF boxes = <<>> THEN MathBox(<<>>) ELSE horizontal_concat(boxes)

token_tags == {"mi", "mn", "mtext"}

process_element(e) ==
    CASE e.tag = "math" ->
            IF len(e) > 0 THEN process_element(e.kids[1]) ELSE MathBox(e.text)
      [] e.tag = "mrow" -> process_mrow(e)
      [] e.tag \in token_tags -> MathBox(e.text)
      [] e.tag = "mo" -> process_mo(e)
      [] e.tag = "mspace" -> MathBox(<<" ">>)
      [] e.tag = "mfrac" -> process_fraction(e)
      [] e.tag = "msub" -> process_subscript(e)
      [] e.tag = "msup" -> process_superscript(e)
      [] e.tag = "msubsup" -> process_subsup(e)
      [] e.tag = "munder" -> process_under(e)
      [] e.tag = "munderover" -> process_underover(e)
      [] e.tag = "msqrt" -> process_square_root(e)
      [] e.tag = "mroot" -> process_nth_root(e)
      [] e.tag = "mtable" -> process_table(e)
      [] e.tag = "mtr" -> process_table_row(e)
      [] e.tag = "mtd" -> process_table_cell(e)
      [] e.tag = "mfenced" -> process_fenced(e)
      [] OTHER ->
            IF len(e) > 0
            THEN horizontal_concat(
                    [i \in 1..len(e) |-> process_element(e.kids[i])])
            ELSE MathBox(e.text)

----------------------------------------------------------------------------
(* Input elements.  The children of the element to lay out are drawn from   *)
(* one of the families below, at most MaxKids of them; the element itself   *)
(* is any construct over those children.                                    *)

MaxKids == 3

Leaf(tag, text) == Element(tag, {}, text, <<>>, <<>>)
Node(tag, children) == Element(tag, {}, <<>>, children, <<>>)

mi_x     == Leaf("mi", <<"x">>)
mi_i     == Leaf("mi", <<"i">>)
mi_b     == Leaf("mi", <<"b">>)
mi_empty == Leaf("mi", <<>>)
mo_plus  == Leaf("mo", <<"+">>)
mo_sum   == Leaf("mo", <<SUM>>)
mspace   == Leaf("mspace", <<>>)
mi_tail  == Element("mi", {}, <<"y">>, <<>>, <<" ", "t">>)

zero_thickness == {<<"linethickness", <<"0", "p", "t">>>>}

frac_x_i    == Node("mfrac", <<mi_x, mi_i>>)
stack_x_op  == Element("mfrac", zero_thickness, <<>>, <<mi_x, mo_plus>>, <<>>)
sup_frac_x  == Node("msup", <<frac_x_i, mi_x>>)
frac_frac_x == Node("mfrac", <<frac_x_i, mi_x>>)
frac_x_frac == Node("mfrac", <<mi_x, frac_x_i>>)

under_sum_i  == Node("munder", <<mo_sum, mi_i>>)
subsup_x_i_b == Node("msubsup", <<mi_x, mi_i, mi_b>>)
over_x_i     == Node("mover", <<mi_x, mi_i>>)

mo_prime     == Leaf("mo", <<"'">>)

\* a fraction whose own text, which process_fraction does not render, holds
\* the summation glyph
frac_sum_text == Element("mfrac", {}, <<SUM>>, <<mi_x, mi_i>>, <<>>)

\* a letter, a mark that try_unicode_superscript keeps inline, and an
\* element whose text is not in its box
Primed == {mi_x, mo_prime, frac_sum_text}

\* a fraction and the constructs process_mrow sets apart from it
AfterFraction == {frac_x_i, under_sum_i, subsup_x_i_b, over_x_i}

Tokens == {mi_x, mi_i, mi_b, mo_plus, mo_sum, mspace}

Tall ==
    {frac_x_i, stack_x_op, sup_frac_x, frac_frac_x, frac_x_frac, mi_empty}

\* two-child constructs with another number of children, and a sibling
MalformedTwo ==
    {Node("mfrac", <<mi_x>>), Node("msub", <<>>),
     Node("msup", <<mi_x, mi_i, mi_x>>), Node("munder", <<mi_x>>),
     Node("mroot", <<>>), mi_tail}

\* three-child constructs with another number of children, after a fraction
\* and beside a sibling
MalformedThree ==
    {Node("msubsup", <<mi_x, mi_i>>), Node("munderover", <<mi_x>>),
     Node("mfrac", <<mi_x>>), mi_tail}

text_where == <<"w", "h", "e", "r", "e">>
text_Where == <<"W", "h", "e", "r", "e", " ", "x">>

TableRows ==
    {Node("mtr", << Node("mtd", <<Leaf("mtext", text_where)>>) >>),
     Node("mtr", << Node("mtd", <<mi_x>>),
                    Node("mtd", <<Leaf("mtext", text_Where)>>) >>),
     Node("mtr", << Leaf("mtd", text_where) >>),
     Node("mtr", << Node("mtd", <<frac_x_i>>) >>),
     mi_x}

TableCells ==
    {Node("mtd", <<mi_x>>), Leaf("mtd", <<>>), Leaf("mtd", <<"a", " ">>),
     Node("mtd", <<frac_x_i>>), mi_x}

Families ==
    {Tokens, Tall, Primed, AfterFraction, MalformedTwo, MalformedThree, TableRows,
     TableCells}

SeqsUpTo(S, n) == UNION {[1..k -> S] : k \in 0..n}

ChildLists == UNION {SeqsUpTo(F, MaxKids) : F \in Families}

FencedAttribs ==
    {{},
     {<<"open", <<"{">>>>, <<"close", <<"}">>>>},
     {<<"open", <<"{">>>>, <<"close", <<>>>>, <<"separators", <<>>>>},
     {<<"open", <<"[">>>>, <<"close", <<"]">>>>, <<"separators", <<";">>>>},
     {<<"open", <<"|">>>>, <<"close", <<"|">>>>},
     {<<"close", <<"|">>>>}}

FractionAttribs ==
    {{}, zero_thickness, {<<"linethickness", <<"1", "p", "t">>>>}}

\* the token elements laid out on their own
TokenInputs ==
    {Leaf(tag, text) : tag \in token_tags \cup {"mspace"},
                       text \in {<<>>, <<"x">>, <<"a", "b">>}}
    \cup {Element("mo", attrib, text, <<>>, <<>>) :
            attrib \in {{}, {<<"form", <<"p", "r", "e", "f", "i", "x">>>>}},
            text \in {<<"+">>, <<"l", "o", "g">>, <<"(">>, <<SUM>>, <<"NE">>}}

\* "mstyle" stands for every tag process_element does not know
plain_tags ==
    {"msub", "msup", "msubsup", "munder", "munderover", "msqrt", "mroot",
     "mtable", "mtr", "mstyle"}

\* the constructs over one list of children
Constructs(children) ==
    {Node(tag, children) : tag \in plain_tags}
    \cup {Element(tag, {}, text, children, <<>>) :
            tag \in {"math", "mrow", "mtd"}, text \in {<<>>, <<" ", "t", " ">>}}
    \cup {Element("mfrac", attrib, <<>>, children, <<>>) :
            attrib \in FractionAttribs}
    \cup {Element("mfenced", attrib, <<>>, children, <<>>) :
            attrib \in FencedAttribs}

----------------------------------------------------------------------------
(* The state machine: one call of the engine on an input element *)

\* A markup text, as far as parse tells one from another: whether
\* ET.fromstring accepts it, whether it starts with '<math', whether
\* ET.fromstring accepts it wrapped in <math>, and the root either call
\* returns.  What the XML library accepts is an input, not modelled.
Markup(parses, starts_with_math, wrapped_parses, root, wrapped_root) ==
    [given |-> TRUE, parses |-> parses, starts_with_math |-> starts_with_math,
     wrapped_parses |-> wrapped_parses, root |-> root,
     wrapped_root |-> wrapped_root]

NoElem == Element("", {}, <<>>, <<>>, <<>>)

NoMarkup ==
    [given |-> FALSE, parses |-> FALSE, starts_with_math |-> FALSE,
     wrapped_parses |-> FALSE, root |-> NoElem, wrapped_root |-> NoElem]

\* roots of markup that parses as it stands
ParsedRoots ==
    {Node("math", <<frac_x_i>>), Leaf("math", <<"x">>),
     Node("msub", <<mi_x, mi_i>>)}

\* roots of markup that parses once wrapped: the added math element over
\* the fragments of the text
WrappedRoots == {Node("math", <<mi_x, mi_i>>), Leaf("math", <<"x", "y">>)}

\* a text that starts with '<math' and parses has a math root
Markups ==
    {m \in {Markup(parses, starts_with_math, wrapped_parses, root,
                   wrapped_root) :
                parses \in BOOLEAN, starts_with_math \in BOOLEAN,
                wrapped_parses \in BOOLEAN, root \in ParsedRoots,
                wrapped_root \in WrappedRoots} :
        (m.parses /\ m.starts_with_math) => m.root.tag = "math"}

Init ==
    /\ use_unicode \in BOOLEAN
    /\ attempts = 0
    /\ box = MathBox(<<>>)
    /\ \/ /\ mathml = NoMarkup
          /\ \/ elem \in TokenInputs
             \/ \E children \in ChildLists : elem \in Constructs(children)
          /\ pc = "ready"
       \/ /\ mathml \in Markups
          /\ elem = NoElem
          /\ pc = "parse"

after_parse_error_always_wrapped(m) == "retry"

\* parse, the except clause: wrap and try again if the text does not start
\* with '<math', else raise
after_parse_error(m) == IF ~m.starts_with_math THEN "retry" ELSE "error"

\* parse: root = ET.fromstring(mathml); on ParseError the text is wrapped
\* for a second call unless it starts with '<math', and then the error is
\* raised again
ParseFirst ==
    /\ pc = "parse"
    /\ attempts' = attempts + 1
    /\ IF mathml.parses
       THEN elem' = mathml.root /\ pc' = "ready"
       ELSE /\ elem' = elem
            /\ pc' = after_parse_error(mathml)
    /\ UNCHANGED <<use_unicode, mathml, box>>

\* parse: root = ET.fromstring(mathml) on the wrapped text, inside the
\* except clause; a ParseError of this call leaves parse
ParseWrapped ==
    /\ pc = "retry"
    /\ attempts' = attempts + 1
    /\ IF mathml.wrapped_parses
       THEN elem' = mathml.wrapped_root /\ pc' = "ready"
       ELSE elem' = elem /\ pc' = "error"
    /\ UNCHANGED <<use_unicode, mathml, box>>

\* box = parser.process_element(elem)
Layout ==
    /\ pc = "ready"
    /\ box' = process_element(elem)
    /\ pc' = "done"
    /\ UNCHANGED <<use_unicode, mathml, attempts, elem>>

\* the boxes of the children of elem
KidBoxes == [i \in 1..len(elem) |-> process_element(elem.kids[i])]

\* box = parser.horizontal_concat(boxes), called on the boxes of the
\* children of an element that carries nothing else
HorizontalConcat ==
    /\ pc = "ready"
    /\ ~mathml.given
    /\ elem.tag = "mstyle"
    /\ box' = horizontal_concat(KidBoxes)
    /\ pc' = "concat"
    /\ UNCHANGED <<use_unicode, mathml, attempts, elem>>

Next ==
    \/ ParseFirst
    \/ ParseWrapped
    \/ Layout
    \/ HorizontalConcat

Spec == Init /\ [][Next]_vars

----------------------------------------------------------------------------
(* Properties of the layout engine *)

\* the box b is a width x height grid with its baseline inside it
BoxWellFormed(b) ==
    /\ b.height > 0 => 0 <= b.baseline /\ b.baseline < b.height
    /\ Len(b.content) = b.height
    /\ \A y \in 1..Len(b.content) : Len(b.content[y]) = b.width

(* C1: every Box a layout rule returns, for any element tree and either     *)
(* setting of use_unicode, has 0 <= baseline < height when height > 0 and   *)
(* a content grid of exactly height rows of exactly width columns.  The     *)
(* boxes of the children, which the rules returned on the way, are held to  *)
(* the same.                                                                *)
C1_BoxesWellFormed ==
    /\ BoxWellFormed(box)
    /\ pc # "ready" => \A i \in 1..len(elem) : BoxWellFormed(KidBoxes[i])

\* a table of several rows has been laid out over rows of several lines
C1_Witness ==
    /\ pc = "done" /\ elem.tag = "mtable"
    /\ box.height > 3 /\ box.width > 1 /\ box.baseline > 0

\* horizontal_concat has been called on boxes that are all empty
AllKidBoxesEmpty ==
    /\ pc = "concat"
    /\ \A i \in 1..len(elem) : KidBoxes[i].width = 0 \/ KidBoxes[i].height = 0

(* C2, as the specification states it: horizontal_concat of an empty list,  *)
(* or of a list of only empty boxes, returns a Box of width 0 and height 0. *)
(* The code returns MathBox(), whose height is 1.                           *)
C2_EmptyHasHeightZero ==
    AllKidBoxesEmpty => box.width = 0 /\ box.height = 0

(* C2, amended: horizontal_concat of an empty list, or of a list of only    *)
(* empty boxes, returns the empty Box MathBox(): width 0, height 1,         *)
(* baseline 0, one row of no columns.                                       *)
C2_EmptyIsOneBlankRow ==
    AllKidBoxesEmpty =>
        /\ box.width = 0 /\ box.height = 1 /\ box.baseline = 0
        /\ box.content = << <<>> >>

\* horizontal_concat has returned for a list of several boxes, all empty
C2_Witness ==
    /\ AllKidBoxesEmpty
    /\ len(elem) >= 2
    /\ box.width = 0

\* the positions of the boxes horizontal_concat keeps
NonEmptyKids == {i \in 1..len(elem) : KidBoxes[i].width > 0}

(* C3: when exactly one box remains after horizontal_concat drops the       *)
(* empty (width-0) boxes of its list, it returns that box unchanged: same   *)
(* width, height, baseline and content.  A list of one non-empty box is     *)
(* the case of one position.                                                *)
C3_SingleReturnedUnchanged ==
    (pc = "concat" /\ Cardinality(NonEmptyKids) = 1) =>
        \A i \in NonEmptyKids : box = KidBoxes[i]

\* one multi-line box between two empty ones has been concatenated
C3_Witness ==
    /\ pc = "concat"
    /\ len(elem) = 3
    /\ NonEmptyKids = {2}
    /\ box.height > 1 /\ box.baseline > 0

\* the widths of all the boxes handed to horizontal_concat; an empty box
\* adds nothing to the sum
KidWidths == [i \in 1..len(elem) |-> KidBoxes[i].width]

(* C4: horizontal_concat of two or more non-empty boxes returns a box whose *)
(* width is the sum of their widths, whose baseline is the maximum of their *)
(* baselines, and whose height is that baseline plus the maximum over the   *)
(* boxes of (height - baseline).                                            *)
C4_ConcatDimensions ==
    (pc = "concat" /\ Cardinality(NonEmptyKids) >= 2) =>
        /\ box.width = SeqSum(KidWidths)
        /\ \A i \in NonEmptyKids : KidBoxes[i].baseline <= box.baseline
        /\ \E i \in NonEmptyKids : KidBoxes[i].baseline = box.baseline
        /\ \A i \in NonEmptyKids :
              KidBoxes[i].height - KidBoxes[i].baseline
                  <= box.height - box.baseline
        /\ \E i \in NonEmptyKids :
              KidBoxes[i].height - KidBoxes[i].baseline
                  = box.height - box.baseline

\* boxes of different baselines and depths have been concatenated into a
\* box taller than each of them
C4_Witness ==
    /\ pc = "concat"
    /\ Cardinality(NonEmptyKids) >= 2
    /\ \A i \in NonEmptyKids : KidBoxes[i].height < box.height
    /\ \E i \in 1..len(elem) : KidBoxes[i].width = 0

\* a subscript construct over a single-line base and a single-line subscript
\* has been laid out
SingleLineSubscript ==
    /\ pc = "done" /\ elem.tag = "msub" /\ len(elem) = 2
    /\ KidBoxes[1].height = 1 /\ KidBoxes[1].baseline = 0
    /\ KidBoxes[2].height = 1 /\ KidBoxes[2].baseline = 0

\* every character of text has a compact subscript glyph
AllSubscriptGlyphs(text) == \A i \in 1..Len(text) : text[i] \in subscript_keys

\* text, character by character, in compact subscript glyphs
CompactSubscript(text) == [i \in 1..Len(text) |-> unicode_subscripts(text[i])]

Blanks(n) == [i \in 1..n |-> " "]

\* base on row 0 (the baseline row) from column 0, sub on row 1 from column
\* base.width, blank elsewhere
TwoRowSubscript(base, sub) ==
    /\ box.height = 2 /\ box.baseline = 0
    /\ box.width = base.width + sub.width
    /\ box.content = << base.content[1] \o Blanks(sub.width),
                        Blanks(base.width) \o sub.content[1] >>

(* C5, as the specification states it: for a subscript construct whose base *)
(* and subscript are single-line and whose subscript characters all have a  *)
(* compact subscript glyph, with use_unicode on the result is a single-row  *)
(* Box whose text is the base text followed by the transliterated           *)
(* subscript; with use_unicode off it is the 2-row Box.  It is read here   *)
(* for a subscript of at least one character.  A blank subscript, and a     *)
(* base or subscript with blanks around its text, break the first half.     *)
C5_CompactIsBasePlusGlyphs ==
    (/\ SingleLineSubscript
     /\ KidBoxes[2].width > 0
     /\ AllSubscriptGlyphs(KidBoxes[2].content[1])) =>
        IF use_unicode
        THEN /\ box.height = 1
             /\ box.content[1] =
                    KidBoxes[1].content[1]
                        \o CompactSubscript(KidBoxes[2].content[1])
        ELSE TwoRowSubscript(KidBoxes[1], KidBoxes[2])

(* C5, amended: for a subscript construct whose base and subscript are      *)
(* single-line and whose subscript characters all have a compact subscript  *)
(* glyph: with use_unicode on and the subscript text not blank, the result  *)
(* is the single-row Box of the base text followed by the transliterated    *)
(* subscript text, both taken without their leading and trailing blanks;    *)
(* with use_unicode off, or the subscript text blank or empty, the result   *)
(* is the 2-row Box with the base on row 0 (the baseline row) from column 0 *)
(* and the subscript on row 1 from column base.width.                       *)
C5_CompactIsStrippedBasePlusGlyphs ==
    (SingleLineSubscript /\ AllSubscriptGlyphs(KidBoxes[2].content[1])) =>
        IF use_unicode /\ strip(KidBoxes[2].content[1]) # <<>>
        THEN box = MathBox(strip(KidBoxes[1].content[1])
                        \o CompactSubscript(strip(KidBoxes[2].content[1])))
        ELSE TwoRowSubscript(KidBoxes[1], KidBoxes[2])

\* msub(x, i) has been laid out in compact glyphs
C5_Witness ==
    /\ SingleLineSubscript
    /\ use_unicode
    /\ elem.kids[1].text = <<"x">> /\ elem.kids[2].text = <<"i">>
    /\ box.content = << <<"x", unicode_subscripts("i")>> >>

\* a fraction of two children has been laid out
FractionLaidOut == pc = "done" /\ elem.tag = "mfrac" /\ len(elem) = 2

\* the fraction carries linethickness="0pt"
ZeroThickness == <<"linethickness", <<"0", "p", "t">>>> \in elem.attrib

\* the rows of child, each set in a line of the given width with
\* (width - child.width) div 2 blank columns on its left
CenteredRows(child, width) ==
    [y \in 1..child.height |->
        Blanks((width - child.width) \div 2)
            \o child.content[y]
            \o Blanks(width - child.width - (width - child.width) \div 2)]

(* C6: a visible fraction with numerator box N and denominator box D is a   *)
(* Box of width max(N.width, D.width) and height N.height + 1 + D.height;   *)
(* row N.height is the baseline and holds the rule character across the     *)
(* full width; N fills the rows above the rule and D the rows below, each   *)
(* at left offset (width - child.width) div 2, so that on an odd difference *)
(* the extra blank column is on the right.                                  *)
C6_VisibleFraction ==
    (FractionLaidOut /\ ~ZeroThickness) =>
        LET N == KidBoxes[1]
            D == KidBoxes[2]
            width == Max2(N.width, D.width)
        IN  /\ box.width = width
            /\ box.height = N.height + 1 + D.height
            /\ box.baseline = N.height
            /\ box.content =
                   CenteredRows(N, width)
                       \o << [x \in 1..width |-> BOX_H] >>
                       \o CenteredRows(D, width)

\* a fraction with a rule has been laid out whose multi-line numerator is
\* wider than its denominator by an odd number of columns
C6_Witness ==
    /\ FractionLaidOut /\ ~ZeroThickness
    /\ KidBoxes[1].height > 1
    /\ KidBoxes[2].width > 0
    /\ (KidBoxes[1].width - KidBoxes[2].width) % 2 = 1
    /\ KidBoxes[1].width > KidBoxes[2].width

(* C7: a fraction flagged invisible (linethickness="0pt") with numerator    *)
(* box N and denominator box D is a Box of height N.height + D.height and   *)
(* width max(N.width, D.width): the rows of N directly above the rows of D, *)
(* both centered, no rule row between or around them (a cell holds the rule *)
(* character only where an operand holds it), and baseline N.height - 1.    *)
C7_InvisibleFraction ==
    (FractionLaidOut /\ ZeroThickness) =>
        LET N == KidBoxes[1]
            D == KidBoxes[2]
            width == Max2(N.width, D.width)
        IN  /\ box.width = width
            /\ box.height = N.height + D.height
            /\ box.baseline = N.height - 1
            /\ box.content = CenteredRows(N, width) \o CenteredRows(D, width)

\* an invisible fraction of two multi-line operands of different widths has
\* been laid out
C7_Witness ==
    /\ FractionLaidOut /\ ZeroThickness
    /\ KidBoxes[1].height > 1 /\ KidBoxes[2].height > 1
    /\ KidBoxes[1].width < KidBoxes[2].width
    /\ box.height = KidBoxes[1].height + KidBoxes[2].height

\* the rows of the table elem, and the boxes of its rows
TableRowElems == SelectSeq(elem.kids, LAMBDA c : c.tag = "mtr")

TableRowBoxes ==
    [i \in 1..Len(TableRowElems) |-> process_element(TableRowElems[i])]

\* a table of at least two rows has been laid out
TableLaidOut ==
    pc = "done" /\ elem.tag = "mtable" /\ Len(TableRowElems) >= 2

\* some cell of the row holds the word "where" in the text of one of its
\* elements, whatever the case of its letters
RowHasWhere(row) ==
    \E j \in 1..len(row) :
        /\ row.kids[j].tag = "mtd"
        /\ \E k \in 1..len(row.kids[j]) :
              Contains(lower(row.kids[j].kids[k].text), WHERE)

(* C8, as the specification states it: for a table of at least two rows, if *)
(* the second row's cell text contains "where" (case-insensitive) the table *)
(* height is the sum of the row heights plus one, the extra row being blank *)
(* and lying between row 1 and row 2; if the second row's cell text does    *)
(* not contain "where", the height is the sum of the row heights.  The code *)
(* looks for the word in every row of the table, not in the second alone.   *)
C8_GapIffSecondRowHasWhere ==
    TableLaidOut =>
        LET heights == [i \in 1..Len(TableRowBoxes) |-> TableRowBoxes[i].height]
        IN  IF RowHasWhere(TableRowElems[2])
            THEN /\ box.height = SeqSum(heights) + 1
                 /\ box.content[heights[1] + 1] = Blanks(box.width)
            ELSE box.height = SeqSum(heights)

\* the content of the fenced group elem: its non-empty children joined with
\* the separators
FencedContent ==
    LET boxes == fenced_boxes(elem, get(elem, "separators", <<",">>))
    IN  IF boxes = <<>> THEN MathBox(<<>>) ELSE horizontal_concat(boxes)

\* a fenced group opened by a brace has been laid out over content of
\* several rows
BracedGroupLaidOut ==
    /\ pc = "done" /\ elem.tag = "mfenced"
    /\ <<"open", <<"{">>>> \in elem.attrib
    /\ FencedContent.height >= 2

(* C9: a fenced group whose opening delimiter is '{' and whose content has  *)
(* h >= 2 rows is a Box of exactly h rows whose leftmost column holds the   *)
(* brace: the upper hook on row 0 and the lower hook on row h - 1; for      *)
(* h = 3 the middle piece on row 1; for h > 3 the middle piece on exactly   *)
(* one row, row h div 2, and the extension on every other middle row.  The  *)
(* content is copied unchanged to the right of that column and the baseline *)
(* is the content's baseline.                                               *)
C9_MultiLineBrace ==
    BracedGroupLaidOut =>
        LET content == FencedContent
            h == content.height
        IN  /\ box.height = h
            /\ box.baseline = content.baseline
            /\ \A y \in 0..(h - 1) :
                  get_char(box, 0, y) =
                      IF y = 0 THEN BRACE_UPPER
                      ELSE IF y = h - 1 THEN BRACE_LOWER
                      ELSE IF y = h \div 2 THEN BRACE_MIDDLE
                      ELSE BRACE_EXT
            /\ \A y \in 0..(h - 1) : \A x \in 0..(content.width - 1) :
                  /\ x + 1 < box.width
                  /\ get_char(box, x + 1, y) = get_char(content, x, y)

\* a brace of four rows has been drawn before several children
C9_Witness ==
    /\ BracedGroupLaidOut
    /\ len(elem) >= 2
    /\ box.height = 4
    /\ get_char(box, 0, 1) = BRACE_EXT /\ get_char(box, 0, 2) = BRACE_MIDDLE

\* the constructs of a fixed number of children
TwoChildTags == {"mfrac", "msub", "msup", "munder", "mroot"}
ThreeChildTags == {"msubsup", "munderover"}

\* the element e is a construct with the wrong number of children
BadArity(e) ==
    \/ e.tag \in TwoChildTags /\ Len(e.kids) # 2
    \/ e.tag \in ThreeChildTags /\ Len(e.kids) # 3

\* the 1x1 Box holding '?'
QuestionMark ==
    [width |-> 1, height |-> 1, baseline |-> 0, content |-> << <<"?">> >>]

\* a row has been laid out whose children are single-line, one of them at
\* least a construct with the wrong number of children
RowWithBadArityChild ==
    /\ pc = "done" /\ elem.tag = "mrow"
    /\ \E i \in 1..len(elem) : BadArity(elem.kids[i])
    /\ \A i \in 1..len(elem) : KidBoxes[i].height = 1

\* what child i adds to the line of a row of single-line children: two
\* blanks after a fraction before an under / over construct, the child's
\* own line, the child's trailing text
RowPiece(i) ==
    (IF i > 1 /\ elem.kids[i - 1].tag = "mfrac"
        /\ elem.kids[i].tag \in {"msubsup", "munderover", "munder", "mover"}
     THEN <<" ", " ">> ELSE <<>>)
    \o (IF BadArity(elem.kids[i]) THEN <<"?">> ELSE KidBoxes[i].content[1])
    \o strip(elem.kids[i].tail)

(* C10: a two-child construct (fraction, subscript, superscript, under, nth *)
(* root) with a number of children other than 2, and a three-child          *)
(* construct (sub+superscript, under-over) with a number other than 3,      *)
(* returns the 1x1 Box holding '?' with baseline 0; and a row that holds    *)
(* such a construct still lays out all its children in document order: the  *)
(* line of a row of single-line children is its leading text, then for each *)
(* child in turn '?' or the child's line, and the child's trailing text.    *)
C10_ArityViolationIsPlaceholder ==
    /\ (pc = "done" /\ BadArity(elem)) => box = QuestionMark
    /\ RowWithBadArityChild =>
          /\ \A i \in 1..len(elem) :
                BadArity(elem.kids[i]) => KidBoxes[i] = QuestionMark
          /\ box.height = 1
          /\ box.content[1] =
                strip(elem.text) \o Join([i \in 1..len(elem) |-> RowPiece(i)])

\* a row of a malformed construct, a leaf with trailing text and another
\* malformed construct has been laid out
C10_Witness ==
    /\ RowWithBadArityChild
    /\ len(elem) = 3
    /\ BadArity(elem.kids[1]) /\ elem.kids[2] = mi_tail
    /\ BadArity(elem.kids[3])
    /\ box.content[1] = <<"?", "y", "t", "?">>

\* parse has finished: it returned or the ParseError has left it
ParseFinished == mathml.given /\ pc \in {"ready", "done", "error"}

(* C11, as the specification states it: whenever the raw markup fails to    *)
(* parse it is wrapped in a root math element and parsed again exactly once *)
(* (two calls of ET.fromstring in all), and a failure of the second parse   *)
(* is propagated.  The code wraps only markup that does not start with      *)
(* '<math'; markup that does is given up after the first call.              *)
C11_FailedParseIsRetriedOnce ==
    /\ attempts <= 2
    /\ (ParseFinished /\ ~mathml.parses) => attempts = 2
    /\ (mathml.given /\ ~mathml.parses /\ ~mathml.wrapped_parses) =>
          pc \in {"parse", "retry", "error"}

(* C11, amended: when the raw markup fails to parse and does not start with *)
(* '<math', it is wrapped in a root math element and parsed again exactly   *)
(* once; when it fails and starts with '<math', the parse error is          *)
(* propagated at once, without a second attempt.  If the second parse fails *)
(* too the error is propagated.  In every execution there are at most two   *)
(* parse attempts, parse ends in an error exactly when the last attempt     *)
(* made has failed, and then no Box is produced: the layout is run only on  *)
(* the root a successful attempt returned.                                  *)
C11_ParseRecovery ==
    /\ attempts <= 2
    /\ (ParseFinished /\ mathml.parses) => attempts = 1 /\ pc # "error"
    /\ (ParseFinished /\ ~mathml.parses) =>
          /\ attempts = IF mathml.starts_with_math THEN 1 ELSE 2
          /\ pc = "error" <=>
                (mathml.starts_with_math \/ ~mathml.wrapped_parses)
    /\ pc = "error" => box = MathBox(<<>>) /\ elem = NoElem
    /\ (mathml.given /\ pc \in {"ready", "done"}) =>
          elem = IF attempts = 1 THEN mathml.root ELSE mathml.wrapped_root

\* the markup failed to parse, was wrapped, failed again, and the error has
\* left parse after two attempts
C11_Witness ==
    /\ pc = "error" /\ attempts = 2
    /\ ~mathml.parses /\ ~mathml.starts_with_math /\ ~mathml.wrapped_parses

\* a subscript or superscript of two children, or a sub+superscript of three
\* children whose base text holds no summation sign, has been laid out
ScriptLaidOut ==
    /\ pc = "done"
    /\ \/ elem.tag \in {"msub", "msup"} /\ len(elem) = 2
       \/ /\ elem.tag = "msubsup" /\ len(elem) = 3
          /\ ~Contains(Join(KidBoxes[1].content), <<SUM>>)

\* some row of the result holds a compact subscript or superscript glyph
\* that no child box holds
HasCompactGlyph ==
    \E y \in 1..box.height : \E x \in 1..box.width :
        /\ \E c \in subscript_keys \cup superscript_keys :
               /\ c \notin {",", " "}
               /\ box.content[y][x] \in {"sub_" \o c, "sup_" \o c}
        /\ \A i \in 1..len(elem) : \A ky \in 1..KidBoxes[i].height :
               \A kx \in 1..KidBoxes[i].width :
                   KidBoxes[i].content[ky][kx] # box.content[y][x]

(* C12: with use_unicode False, a subscript, a superscript and a            *)
(* non-summation sub+superscript of valid arity never come out in the       *)
(* single-line compact form: the result is the multiline positioning, of    *)
(* height >= 2 (max(base.height, base.baseline + 1 + sub.height) for the    *)
(* subscript, sup.height + base.height for the superscript, the sum of the  *)
(* three heights for the sub+superscript), and it holds no compact glyph,   *)
(* whatever the operand text.                                               *)
C12_NoCompactFormWithoutUnicode ==
    (ScriptLaidOut /\ ~use_unicode) =>
        /\ box.height >= 2
        /\ ~HasCompactGlyph
        /\ elem.tag = "msub" =>
               /\ box.height = Max2(KidBoxes[1].height,
                                    KidBoxes[1].baseline + 1
                                        + KidBoxes[2].height)
               /\ box.width = KidBoxes[1].width + KidBoxes[2].width
        /\ elem.tag = "msup" =>
               /\ box.height = KidBoxes[2].height + KidBoxes[1].height
               /\ box.width = KidBoxes[1].width + KidBoxes[2].width
        /\ elem.tag = "msubsup" =>
               /\ box.height = KidBoxes[3].height + KidBoxes[1].height
                                   + KidBoxes[2].height
               /\ box.width = KidBoxes[1].width
                                  + Max2(KidBoxes[2].width, KidBoxes[3].width)

\* x with superscript i, both single-line and i with a compact glyph, and
\* use_unicode False: the result has two rows
C12_Witness ==
    /\ ScriptLaidOut /\ ~use_unicode /\ elem.tag = "msup"
    /\ elem.kids[1] = mi_x /\ elem.kids[2] = mi_i
    /\ box.content = << <<" ", "i">>, <<"x", " ">> >>

\* the column where box i of kid_boxes starts: the widths of the boxes
\* before it
KidLeft(kid_boxes, i) == SeqSum([j \in 1..(i - 1) |-> kid_boxes[j].width])

\* the result row where row 0 of box b lands
KidTop(b) == box.baseline - b.baseline

\* the non-empty boxes of kid_boxes, starting at the columns lefts, that
\* cover cell (x, y) of the result, counted from 0
KidsAt(kid_boxes, lefts, x, y) ==
    {i \in 1..Len(kid_boxes) :
        /\ kid_boxes[i].width > 0
        /\ lefts[i] <= x /\ x < lefts[i] + kid_boxes[i].width
        /\ KidTop(kid_boxes[i]) <= y
        /\ y < KidTop(kid_boxes[i]) + kid_boxes[i].height}

\* the boxes handed to horizontal_concat, as a tuple
KidBoxTuple == KidBoxes \o <<>>

(* C13: horizontal_concat of two or more non-empty boxes b1..bn puts bi in  *)
(* the columns [sum of the widths of b1..b(i-1), that sum + bi.width) and   *)
(* its row y on result row y + (result.baseline - bi.baseline).  Every row  *)
(* of every bi lies inside the result, every cell of the result covered by  *)
(* a box holds that box's cell, no cell is covered by two boxes, and every  *)
(* uncovered cell is a space.                                               *)
C13_ConcatPlacement ==
    (pc = "concat" /\ Cardinality(NonEmptyKids) >= 2) =>
        LET kid_boxes == KidBoxTuple
            lefts == [i \in 1..Len(kid_boxes) |-> KidLeft(kid_boxes, i)]
                         \o <<>>
        IN  /\ \A i \in 1..Len(kid_boxes) :
                  kid_boxes[i].width > 0 =>
                      /\ 0 <= KidTop(kid_boxes[i])
                      /\ KidTop(kid_boxes[i]) + kid_boxes[i].height
                             <= box.height
                      /\ lefts[i] + kid_boxes[i].width <= box.width
            /\ \A y \in 0..(box.height - 1) : \A x \in 0..(box.width - 1) :
                  LET here == KidsAt(kid_boxes, lefts, x, y) IN
                  /\ Cardinality(here) <= 1
                  /\ \A i \in here :
                        box.content[y + 1][x + 1] =
                            kid_boxes[i].content
                                [y - KidTop(kid_boxes[i]) + 1]
                                [x - lefts[i] + 1]
                  /\ here = {} => box.content[y + 1][x + 1] = " "

\* boxes of different baselines have been concatenated, with an empty box
\* among them, and some cell of the result is covered by no box
C13_Witness ==
    /\ pc = "concat"
    /\ Cardinality(NonEmptyKids) >= 2
    /\ \E i \in 1..len(elem) : KidBoxes[i].width = 0
    /\ LET kid_boxes == KidBoxTuple
           lefts == [i \in 1..Len(kid_boxes) |-> KidLeft(kid_boxes, i)]
                        \o <<>>
       IN  /\ \E i \in NonEmptyKids : KidTop(kid_boxes[i]) > 0
           /\ \E i \in NonEmptyKids :
                 KidTop(kid_boxes[i]) = 0 /\ kid_boxes[i].height > 1
           /\ \E y \in 0..(box.height - 1) : \E x \in 0..(box.width - 1) :
                 KidsAt(kid_boxes, lefts, x, y) = {}

\* a Row has been laid out
RowLaidOut == pc = "done" /\ elem.tag = "mrow"

\* the children of the Row that come right after a fraction construct and
\* whose tag is one of tags
AfterFractionKids(tags) ==
    {i \in 2..len(elem) :
        elem.kids[i - 1].tag = "mfrac" /\ elem.kids[i].tag \in tags}

\* the width of the Row's pieces up to, not including, the box of child i:
\* leading text, child boxes, trailing texts, and 2 columns for each child
\* of seps
RowLeft(kid_boxes, seps, i) ==
    Len(strip(elem.text))
    + SeqSum([j \in 1..(i - 1) |->
                 kid_boxes[j].width + Len(strip(elem.kids[j].tail))])
    + 2 * Cardinality({k \in seps : k <= i})

\* The Row is as wide as its pieces plus 2 columns for each child of seps,
\* and the 2 columns before the box of each child of seps are blank in
\* every row.
RowSeparatedAt(seps) ==
    LET kid_boxes == KidBoxTuple IN
    /\ box.width = RowLeft(kid_boxes, seps, len(elem) + 1)
    /\ \A i \in seps : \A y \in 1..box.height :
          LET left == RowLeft(kid_boxes, seps, i) IN
          /\ left <= box.width
          /\ box.content[y][left - 1] = " "
          /\ box.content[y][left] = " "

(* C14, as the specification states it: in a Row a 2-space separator Box is *)
(* inserted between two adjacent children when, and only when, the first is *)
(* a fraction construct and the second is an under, over or under-over      *)
(* construct.  Stated for children of valid arity; the code inserts it      *)
(* before a sub+superscript construct too.                                  *)
C14_SeparatorBeforeUnderOverOnly ==
    (RowLaidOut /\ \A i \in 1..len(elem) : ~BadArity(elem.kids[i])) =>
        RowSeparatedAt(AfterFractionKids({"munder", "mover", "munderover"}))

(* C14, amended: in a Row a 2-space separator Box is inserted between two   *)
(* adjacent children when, and only when, the first is a fraction construct *)
(* and the second is a sub+superscript, under, over or under-over           *)
(* construct; no separator is inserted before any other kind of child.      *)
C14_SeparatorAfterFraction ==
    RowLaidOut => RowSeparatedAt(AfterFractionKids({"msubsup", "munder",
                                                    "mover", "munderover"}))

\* a Row of a fraction, an under construct and a fraction has been laid out:
\* one separator, before the second child only
C14_Witness ==
    /\ RowLaidOut
    /\ len(elem) = 3
    /\ elem.kids[1] = frac_x_i /\ elem.kids[2] = under_sum_i
    /\ elem.kids[3] = frac_x_i
    /\ box.width = KidBoxes[1].width + 2 + KidBoxes[2].width
                       + KidBoxes[3].width

\* With compact glyphs enabled, a construct of the given tag over a
\* single-line zero-baseline base and a single-line zero-baseline operand
\* of non-blank text has been laid out.
ScriptOverSimpleText(tag) ==
    /\ pc = "done" /\ use_unicode
    /\ elem.tag = tag /\ len(elem) = 2
    /\ KidBoxes[1].height = 1 /\ KidBoxes[1].baseline = 0
    /\ KidBoxes[2].height = 1 /\ KidBoxes[2].baseline = 0
    /\ strip(KidBoxes[2].content[1]) # <<>>

\* the operand text, without the blanks around it
OperandText == strip(KidBoxes[2].content[1])

\* the base text, without the blanks around it
BaseText == strip(KidBoxes[1].content[1])

\* the box is the single line text
IsSingleLine(text) ==
    /\ box.height = 1 /\ box.baseline = 0 /\ box.width = Len(text)
    /\ box.content = <<text>>

\* the general multiline superscript of two single-line boxes: operand on
\* row 0 from column base.width, base on row 1 from column 0
TwoRowSuperscript(base, sup) ==
    /\ box.height = sup.height + base.height /\ box.height = 2
    /\ box.baseline = 1
    /\ box.width = base.width + sup.width
    /\ box.content = <<Blanks(base.width) \o sup.content[1],
                       base.content[1] \o Blanks(sup.width)>>

\* the marks try_unicode_superscript keeps inline when they are the whole text
InlineMarks == {<<"'">>, <<"\"">>, <<"*">>}

(* C15, as the specification states it: with compact glyphs enabled, for a  *)
(* single-line zero-baseline base and operand of non-blank text, if any     *)
(* operand character has no compact glyph, a subscript is the single line   *)
(* base text + '_' + operand text and a superscript is laid out by the      *)
(* general multiline path, of height operand.height + base.height.  The     *)
(* code keeps a superscript that is one of the marks ' " * inline.          *)
C15_FallbackUnderscoreOrMultiline ==
    /\ (ScriptOverSimpleText("msub") /\ ~AllSubscriptGlyphs(OperandText)) =>
           IsSingleLine(BaseText \o <<"_">> \o OperandText)
    /\ (/\ ScriptOverSimpleText("msup")
        /\ \E i \in 1..Len(OperandText) :
               OperandText[i] \notin superscript_keys) =>
           TwoRowSuperscript(KidBoxes[1], KidBoxes[2])

(* C15, amended: with compact glyphs enabled, for a single-line             *)
(* zero-baseline base and operand of non-blank text (texts taken without    *)
(* the blanks around them), if any operand character has no compact glyph,  *)
(* a subscript is the single line base text + '_' + operand text, never     *)
(* multiline; a superscript is laid out by the general multiline path       *)
(* (operand above the base, height operand.height + base.height), unless    *)
(* the operand text is the single character ', " or *, which is appended    *)
(* to the base text as it is, on a single line.                             *)
C15_FallbackPolicy ==
    /\ (ScriptOverSimpleText("msub") /\ ~AllSubscriptGlyphs(OperandText)) =>
           IsSingleLine(BaseText \o <<"_">> \o OperandText)
    /\ (/\ ScriptOverSimpleText("msup")
        /\ \E i \in 1..Len(OperandText) :
               OperandText[i] \notin superscript_keys) =>
           IF OperandText \in InlineMarks
           THEN IsSingleLine(BaseText \o OperandText)
           ELSE TwoRowSuperscript(KidBoxes[1], KidBoxes[2])

\* x with the superscript ': the mark has no superscript glyph and is kept
\* inline, the result is the single line x'
C15_Witness ==
    /\ ScriptOverSimpleText("msup")
    /\ elem.kids[1] = mi_x /\ elem.kids[2] = mo_prime
    /\ box.content = << <<"x", "'">> >>

\* A subscript of two children has been laid out by the general multiline
\* path: the compact form was not tried (use_unicode off, or a base or
\* operand that is not single-line zero-baseline text) or gave nothing (the
\* operand text is blank).
SubscriptMultiline ==
    /\ pc = "done" /\ elem.tag = "msub" /\ len(elem) = 2
    /\ ~ScriptOverSimpleText("msub")

\* A superscript of two children has been laid out by the general multiline
\* path: as above, or some character of the operand has no superscript
\* glyph and the operand is not a mark kept inline.
SuperscriptMultiline ==
    /\ pc = "done" /\ elem.tag = "msup" /\ len(elem) = 2
    /\ \/ ~ScriptOverSimpleText("msup")
       \/ /\ OperandText \notin InlineMarks
          /\ \E i \in 1..Len(OperandText) :
                 OperandText[i] \notin superscript_keys

\* Every cell of b is in the result, at (left, top) from its own (0, 0).
AppearsAt(b, left, top) ==
    /\ top + b.height <= box.height
    /\ left + b.width <= box.width
    /\ \A y \in 1..b.height : \A x \in 1..b.width :
          box.content[top + y][left + x] = b.content[y][x]

\* Every cell of the result outside the two rectangles is a space.
BlankOutside(b1, left1, top1, b2, left2, top2) ==
    \A y \in 1..box.height : \A x \in 1..box.width :
        \/ /\ top1 < y /\ y <= top1 + b1.height
           /\ left1 < x /\ x <= left1 + b1.width
        \/ /\ top2 < y /\ y <= top2 + b2.height
           /\ left2 < x /\ x <= left2 + b2.width
        \/ box.content[y][x] = " "

(* C16: in the general multiline path a subscript result has width          *)
(* base.width + sub.width and baseline base.baseline, the base from row 0,  *)
(* column 0 and the subscript from row base.baseline + 1, column            *)
(* base.width; a superscript result has width base.width + sup.width,       *)
(* height sup.height + base.height and baseline sup.height + base.baseline, *)
(* the superscript on rows 0..sup.height-1 from column base.width and the   *)
(* base on the rows from sup.height, column 0.  In both every cell of the   *)
(* base and of the operand appears in the result: none is cut off by the    *)
(* result height, none overwrites the other, and the rest is blank.         *)
C16_MultilineScriptGeometry ==
    LET kid_boxes == KidBoxTuple
        base == kid_boxes[1]
        operand == kid_boxes[2]
    IN  /\ SubscriptMultiline =>
              /\ box.width = base.width + operand.width
              /\ box.baseline = base.baseline
              /\ box.height >= base.height
              /\ box.height >= base.baseline + 1 + operand.height
              /\ AppearsAt(base, 0, 0)
              /\ AppearsAt(operand, base.width, base.baseline + 1)
              /\ BlankOutside(base, 0, 0,
                              operand, base.width, base.baseline + 1)
        /\ SuperscriptMultiline =>
              /\ box.width = base.width + operand.width
              /\ box.height = operand.height + base.height
              /\ box.baseline = operand.height + base.baseline
              /\ AppearsAt(operand, base.width, 0)
              /\ AppearsAt(base, 0, operand.height)
              /\ BlankOutside(operand, base.width, 0,
                              base, 0, operand.height)

\* a subscript over a base whose baseline is not its top row and a
\* multi-line operand: the result is taller than the base
C16_Witness ==
    /\ SubscriptMultiline
    /\ KidBoxes[1].baseline > 0 /\ KidBoxes[2].height > 1
    /\ box.height > KidBoxes[1].height
    /\ box.height = KidBoxes[1].baseline + 1 + KidBoxes[2].height

\* a sub+superscript of three children has been laid out
SubSupLaidOut == pc = "done" /\ elem.tag = "msubsup" /\ len(elem) = 3

\* the text of box b, all rows, holds the summation glyph
HasSummationGlyph(b) == Contains(Join(b.content), <<SUM>>)

\* Every cell of the result outside the three rectangles is a space.
BlankOutsideThree(b1, left1, top1, b2, left2, top2, b3, left3, top3) ==
    \A y \in 1..box.height : \A x \in 1..box.width :
        \/ /\ top1 < y /\ y <= top1 + b1.height
           /\ left1 < x /\ x <= left1 + b1.width
        \/ /\ top2 < y /\ y <= top2 + b2.height
           /\ left2 < x /\ x <= left2 + b2.width
        \/ /\ top3 < y /\ y <= top3 + b3.height
           /\ left3 < x /\ x <= left3 + b3.width
        \/ box.content[y][x] = " "

\* top, middle and bottom are stacked in that order in the result, each
\* centered at (width - child.width) div 2, the rest blank
StackedCentered(top, middle, bottom) ==
    /\ box.height = top.height + middle.height + bottom.height
    /\ AppearsAt(top, (box.width - top.width) \div 2, 0)
    /\ AppearsAt(middle, (box.width - middle.width) \div 2, top.height)
    /\ AppearsAt(bottom, (box.width - bottom.width) \div 2,
                 top.height + middle.height)
    /\ BlankOutsideThree(
           top, (box.width - top.width) \div 2, 0,
           middle, (box.width - middle.width) \div 2, top.height,
           bottom, (box.width - bottom.width) \div 2,
           top.height + middle.height)

(* C17: a sub+superscript whose base text holds the summation glyph is,     *)
(* whatever use_unicode and the shapes of the operands, the superscript,    *)
(* the base and the subscript stacked in that order, each centered at       *)
(* (width - child.width) div 2, with width the maximum of the three widths, *)
(* height the sum of the three heights and baseline superscript.height +    *)
(* base.baseline.                                                           *)
C17_SummationStacked ==
    LET kid_boxes == KidBoxTuple
        base == kid_boxes[1]
        sub == kid_boxes[2]
        sup == kid_boxes[3]
    IN  (SubSupLaidOut /\ HasSummationGlyph(base)) =>
            /\ box.width = Max2(base.width, Max2(sub.width, sup.width))
            /\ box.baseline = sup.height + base.baseline
            /\ StackedCentered(sup, base, sub)

\* a summation sign with single-character limits that have compact glyphs,
\* compact glyphs enabled: three rows all the same
C17_Witness ==
    /\ SubSupLaidOut /\ use_unicode
    /\ elem.kids = <<mo_sum, mi_i, mi_x>>
    /\ box.content = << <<"x">>, <<SUM>>, <<"i">> >>
    /\ box.baseline = 1

\* text, character by character, in compact superscript glyphs
CompactSuperscript(text) ==
    [i \in 1..Len(text) |-> unicode_superscripts(text[i])]

\* every character of text has a compact superscript glyph
AllSuperscriptGlyphs(text) ==
    \A i \in 1..Len(text) : text[i] \in superscript_keys

\* The diagonal placement: base from row sup.height, column 0; superscript
\* from row 0 and subscript from row sup.height + base.height, both from
\* column base.width; the rest blank.
DiagonalPlacement(base, sub, sup) ==
    /\ box.width = base.width + Max2(sub.width, sup.width)
    /\ box.height = sup.height + base.height + sub.height
    /\ box.baseline = sup.height + base.baseline
    /\ AppearsAt(base, 0, sup.height)
    /\ AppearsAt(sup, base.width, 0)
    /\ AppearsAt(sub, base.width, sup.height + base.height)
    /\ BlankOutsideThree(base, 0, sup.height, sup, base.width, 0,
                         sub, base.width, sup.height + base.height)

\* base, sub and sup are single-line
AllSingleLine(base, sub, sup) ==
    base.height = 1 /\ sub.height = 1 /\ sup.height = 1

(* C18, as the specification states it: for a sub+superscript whose base    *)
(* text holds no summation glyph, if base, subscript and superscript are    *)
(* single-line and both operands transliterate fully (compact glyphs        *)
(* enabled, operand texts not blank) the result is the single row base +    *)
(* compact_sub + compact_sup; otherwise it is the diagonal placement.  The  *)
(* code has single-row results that are neither: a subscript with a         *)
(* character without a glyph goes in as '_' + text, and a superscript that  *)
(* is one of the marks ' " * goes in as it is.                              *)
C18_CompactOrDiagonal ==
    LET kid_boxes == KidBoxTuple
        base == kid_boxes[1]
        sub == kid_boxes[2]
        sup == kid_boxes[3]
        sub_text == strip(sub.content[1])
        sup_text == strip(sup.content[1])
    IN  (SubSupLaidOut /\ ~HasSummationGlyph(base)) =>
            IF /\ use_unicode /\ AllSingleLine(base, sub, sup)
               /\ sub_text # <<>> /\ sup_text # <<>>
               /\ AllSubscriptGlyphs(sub_text)
               /\ AllSuperscriptGlyphs(sup_text)
            THEN IsSingleLine(strip(base.content[1])
                              \o CompactSubscript(sub_text)
                              \o CompactSuperscript(sup_text))
            ELSE DiagonalPlacement(base, sub, sup)

(* C18, amended: for a sub+superscript whose base text holds no summation   *)
(* glyph, the result is a single row when compact glyphs are enabled, base, *)
(* subscript and superscript are single-line, neither operand text is blank *)
(* (texts taken without the blanks around them) and the superscript either  *)
(* transliterates fully or is the single character ', " or *.  The row is   *)
(* the base text, then the subscript in compact glyphs if it transliterates *)
(* fully and as '_' + its text if not, then the superscript in compact      *)
(* glyphs, or as it is for the three marks.  In every other case the result *)
(* is the diagonal placement: width base.width + max(sub.width, sup.width), *)
(* height sup.height + base.height + sub.height, baseline sup.height +      *)
(* base.baseline, base from row sup.height, column 0, superscript from row  *)
(* 0 and subscript from row sup.height + base.height, both from column      *)
(* base.width.                                                              *)
C18_SubSupLayout ==
    LET kid_boxes == KidBoxTuple
        base == kid_boxes[1]
        sub == kid_boxes[2]
        sup == kid_boxes[3]
        sub_text == strip(sub.content[1])
        sup_text == strip(sup.content[1])
    IN  (SubSupLaidOut /\ ~HasSummationGlyph(base)) =>
            IF /\ use_unicode /\ AllSingleLine(base, sub, sup)
               /\ sub_text # <<>> /\ sup_text # <<>>
               /\ (sup_text \in InlineMarks
                   \/ AllSuperscriptGlyphs(sup_text))
            THEN IsSingleLine(
                     strip(base.content[1])
                     \o (IF AllSubscriptGlyphs(sub_text)
                         THEN CompactSubscript(sub_text)
                         ELSE <<"_">> \o sub_text)
                     \o (IF sup_text \in InlineMarks
                         THEN sup_text
                         ELSE CompactSuperscript(sup_text)))
            ELSE DiagonalPlacement(base, sub, sup)

\* x with subscript b and superscript i, compact glyphs enabled: b has no
\* subscript glyph, the result is the single row x_b and the glyph of i
C18_Witness ==
    /\ SubSupLaidOut /\ use_unicode
    /\ elem.kids = <<mi_x, mi_b, mi_i>>
    /\ box.content = << <<"x", "_", "b", unicode_superscripts("i")>> >>

\* an Under construct of two children has been laid out
UnderLaidOut == pc = "done" /\ elem.tag = "munder" /\ len(elem) = 2

\* an Under-Over construct of three children has been laid out
UnderOverLaidOut == pc = "done" /\ elem.tag = "munderover" /\ len(elem) = 3

(* C19: Under and Under-Over stack their operands vertically, no two on the *)
(* same row, each centered at (width - child.width) div 2 in the result.    *)
(* Under has height base.height + under.height, the base on top and         *)
(* baseline base.baseline.  Under-Over has height over.height + base.height *)
(* + under.height, in the order over, base, under, and baseline             *)
(* over.height + base.baseline.  The result is at least as wide as the      *)
(* widest operand and blank outside the operands.                           *)
C19_UnderStacked ==
    LET kid_boxes == KidBoxTuple IN
    /\ UnderLaidOut =>
          LET base == kid_boxes[1]
              under == kid_boxes[2]
          IN  /\ box.height = base.height + under.height
              /\ box.baseline = base.baseline
              /\ box.width >= Max2(base.width, under.width)
              /\ AppearsAt(base, (box.width - base.width) \div 2, 0)
              /\ AppearsAt(under, (box.width - under.width) \div 2,
                           base.height)
              /\ BlankOutside(base, (box.width - base.width) \div 2, 0,
                              under, (box.width - under.width) \div 2,
                              base.height)
    /\ UnderOverLaidOut =>
          LET base == kid_boxes[1]
              under == kid_boxes[2]
              over == kid_boxes[3]
          IN  /\ box.baseline = over.height + base.baseline
              /\ box.width >= Max2(base.width,
                                   Max2(under.width, over.width))
              /\ StackedCentered(over, base, under)

\* an Under-Over construct over a fraction, with operands of different
\* widths: the base is not on the top row and some operand is indented
C19_Witness ==
    /\ UnderOverLaidOut
    /\ KidBoxes[1].baseline > 0
    /\ box.baseline = KidBoxes[3].height + KidBoxes[1].baseline
    /\ \E i \in 1..3 : (box.width - KidBoxes[i].width) \div 2 > 0

\* The text of the base of the Under / Under-Over construct holds the
\* summation glyph.  The text is that of the base element itself, as the
\* code reads it, not the text of the base's box.
BaseTextHasSummation == Contains(elem.kids[1].text, <<SUM>>)

\* the width of the widest operand
WidestOperand == SeqMax([i \in 1..len(elem) |-> KidBoxes[i].width])

SqrtLaidOut == pc = "done" /\ elem.tag = "msqrt" /\ len(elem) >= 1

\* an nth root of two children has been laid out
NthRootLaidOut == pc = "done" /\ elem.tag = "mroot" /\ len(elem) = 2

\* the radicand box of a square root: the box of the only child, or the
\* children side by side
SqrtRadicand(kid_boxes) ==
    IF Len(kid_boxes) = 1 THEN kid_boxes[1] ELSE horizontal_concat(kid_boxes)

\* the single row sqrt sign, '(', text, ')'
RootOf(text) == <<SQRT, "(">> \o text \o <<")">>

(* C21, as the specification states it: a root whose radicand box is        *)
(* single-line is a single row: a square root is the sign + '(' + radicand  *)
(* text + ')'; an nth root is the index in superscript glyphs followed by   *)
(* that when every index character has a superscript glyph (compact glyphs  *)
(* enabled, index text not blank), and '[' + index + ']' followed by that   *)
(* otherwise.  The code lays an nth root with a multi-line index out on     *)
(* several rows, and keeps an index that is one of the marks ' " * as it    *)
(* is.                                                                      *)
C21_SingleLineRadicandIsOneRow ==
    LET kid_boxes == KidBoxTuple IN
    /\ (SqrtLaidOut /\ SqrtRadicand(kid_boxes).height = 1) =>
          IsSingleLine(RootOf(strip(SqrtRadicand(kid_boxes).content[1])))
    /\ (NthRootLaidOut /\ kid_boxes[1].height = 1) =>
          LET radicand_text == strip(kid_boxes[1].content[1])
              index_text == strip(kid_boxes[2].content[1])
          IN  IF /\ use_unicode /\ index_text # <<>>
                 /\ AllSuperscriptGlyphs(index_text)
              THEN IsSingleLine(CompactSuperscript(index_text)
                                \o RootOf(radicand_text))
              ELSE IsSingleLine(<<"[">> \o index_text \o <<"]">>
                                \o RootOf(radicand_text))

(* C21, amended: a square root whose radicand box is single-line is the     *)
(* single row sign + '(' + radicand text + ')'.  An nth root whose radicand *)
(* box and index box are both single-line is a single row (texts taken      *)
(* without the blanks around them): with compact glyphs enabled and an      *)
(* index that is not blank, the index in superscript glyphs when every      *)
(* character of it has one, or the index as it is when it is the single     *)
(* character ', " or *, followed by sign + '(' + radicand text + ')'; in    *)
(* every other case '[' + index + ']' followed by the same.  An nth root    *)
(* with a single-line radicand and a multi-line index is not a single row:  *)
(* it takes the multi-line layout.                                          *)
C21_SingleLineRoots ==
    LET kid_boxes == KidBoxTuple IN
    /\ (SqrtLaidOut /\ SqrtRadicand(kid_boxes).height = 1) =>
          IsSingleLine(RootOf(strip(SqrtRadicand(kid_boxes).content[1])))
    /\ (NthRootLaidOut /\ kid_boxes[1].height = 1) =>
          LET radicand_text == strip(kid_boxes[1].content[1])
              index_text == strip(kid_boxes[2].content[1])
          IN  IF kid_boxes[2].height > 1 THEN box.height > 1
              ELSE IF /\ use_unicode /\ index_text # <<>>
                      /\ (index_text \in InlineMarks
                          \/ AllSuperscriptGlyphs(index_text))
              THEN IsSingleLine(
                       (IF index_text \in InlineMarks THEN index_text
                        ELSE CompactSuperscript(index_text))
                       \o RootOf(radicand_text))
              ELSE IsSingleLine(<<"[">> \o index_text \o <<"]">>
                                \o RootOf(radicand_text))

\* the nth root of a single-line radicand with a fraction as index: 3 rows
C21_Witness ==
    /\ NthRootLaidOut
    /\ KidBoxes[1].height = 1 /\ KidBoxes[1].width > 0
    /\ elem.kids[2] = frac_x_i
    /\ box.height = 3

\* Row 0 of the result is blank up to column left, holds the top of the
\* diagonal there and then length rule characters, and is blank after them.
OverlineAt(left, length) ==
    \A x \in 0..(box.width - 1) :
        box.content[1][x + 1] =
            IF x = left THEN DIAG_TOP
            ELSE IF left < x /\ x <= left + length THEN BOX_H
            ELSE " "

\* On each row y of 1..last below the overline the diagonal stroke is at
\* column top_column - y: one column to the left per row.
DiagonalDescends(top_column, last) ==
    \A y \in 1..last : box.content[y + 1][top_column - y + 1] = DIAG

(* C22: a square root with a multi-line radicand of height h >= 2 and width *)
(* w has height h + 1 and baseline radicand.baseline + 1; row 0 carries the *)
(* overline of w + 4 rule characters, starting right of the top of the      *)
(* diagonal; the diagonal stroke descends one column to the left per row    *)
(* below it; and radicand cell (x, y) is at column x + h + 3, row y + 1.    *)
C22_MultiLineSquareRoot ==
    LET kid_boxes == KidBoxTuple
        radicand == SqrtRadicand(kid_boxes)
        h == radicand.height
        w == radicand.width
    IN  (SqrtLaidOut /\ h >= 2) =>
            /\ box.height = h + 1
            /\ box.height >= 3
            /\ box.baseline = radicand.baseline + 1
            /\ OverlineAt(h + 2, w + 4)
            /\ DiagonalDescends(h + 2, h)
            /\ AppearsAt(radicand, h + 3, 1)

\* the square root of a fraction over a fraction: a radicand of 5 rows
C22_Witness ==
    /\ SqrtLaidOut
    /\ len(elem) = 1 /\ elem.kids[1] = frac_frac_x
    /\ box.height = KidBoxes[1].height + 1
    /\ box.height > 4
    /\ box.content[2][box.height + 1] = DIAG

\* an nth root of two children has been laid out on several rows
NthRootMultiLine ==
    /\ NthRootLaidOut
    /\ ~(KidBoxes[1].height = 1 /\ KidBoxes[2].height = 1)

\* the index text of a multi-line nth root: all rows of the index box
\* joined, without the blanks around
IndexText(index) == strip(Join(index.content))

\* the rows of the result, counted from 0, that hold the underscore glyph
\* at column k + 1
UnderscoreRows(k) ==
    {y \in 0..(box.height - 1) : box.content[y + 1][k + 2] = "_"}

(* C23: in a multi-line nth root with radicand height h and index text of   *)
(* width k, the index text is on the one radical row that carries the       *)
(* underscore glyph (columns 1..k, the underscore right after it), every    *)
(* other row is blank in its first k + 1 columns, the radical being shifted *)
(* right by k + 1, and radicand cell (x, y) is at row y + 1 and column      *)
(* x + (h + 3) + (k + 1), for every h, h = 3 included.                      *)
C23_NthRootIndexAndOffset ==
    NthRootMultiLine =>
        LET kid_boxes == KidBoxTuple
            radicand == kid_boxes[1]
            index_text == IndexText(kid_boxes[2])
            h == radicand.height
            k == Len(index_text)
        IN  /\ Cardinality(UnderscoreRows(k)) = 1
            /\ \A y \in 0..(box.height - 1) :
                  IF y \in UnderscoreRows(k)
                  THEN /\ box.content[y + 1][1] = " "
                       /\ \A j \in 1..k :
                             box.content[y + 1][j + 1] = index_text[j]
                  ELSE \A x \in 0..k : box.content[y + 1][x + 1] = " "
            /\ AppearsAt(radicand, (h + 3) + (k + 1), 1)

\* an nth root of a radicand of 5 rows with an index of 3 characters
C23_Witness ==
    /\ NthRootMultiLine
    /\ KidBoxes[1].height = 5
    /\ Len(IndexText(KidBoxes[2])) = 3
    /\ box.content[2][13] = KidBoxes[1].content[1][1]
    /\ box.content[2][13] # " "

\* the character of the radical lines at column x of row y, counted from 0;
\* blank outside the lines
LineChar(lines, x, y) ==
    IF y + 1 <= Len(lines) /\ x + 1 <= Len(lines[y + 1])
    THEN lines[y + 1][x + 1]
    ELSE " "

\* The radical of the result is the square-root radical of a radicand of
\* height h and width w, shifted right by shift columns: the same number of
\* rows, the whole of the overline row, and on the lower rows every column
\* left of the content.
IsShiftedSqrtRadical(h, w, shift) ==
    LET lines == generate_sqrt_radical(h + 1, w + 4) IN
    /\ box.height = h + 1
    /\ box.height = Len(lines)
    /\ \A x \in 0..(Len(lines[1]) - 1) :
          box.content[1][x + shift + 1] = LineChar(lines, x, 0)
    /\ \A y \in 1..h : \A x \in 0..(h + 2) :
          box.content[y + 1][x + shift + 1] = LineChar(lines, x, y)

(* C24: the radical of a multi-line nth root has the structure of the       *)
(* square-root radical of the same radicand, for every radicand height:     *)
(* radicand.height + 1 rows and the same glyph at each position, shifted    *)
(* right by index.width + 1 columns.  The code does this for a radicand of  *)
(* 3 rows only; for every other height its radical has one row more and     *)
(* another shape.                                                           *)
C24_NthRootRadicalIsSqrtRadical ==
    (NthRootMultiLine /\ KidBoxes[1].height >= 2) =>
        LET kid_boxes == KidBoxTuple
            k == Len(IndexText(kid_boxes[2]))
        IN  IsShiftedSqrtRadical(kid_boxes[1].height, kid_boxes[1].width,
                                 k + 1)

\* a table of at least one row has been laid out
TableWithRows ==
    pc = "done" /\ elem.tag = "mtable" /\ Len(TableRowElems) >= 1

\* the result row where row i of the table starts: the heights of the rows
\* before it, and the blank row of the where clause, if the table has one,
\* for every row but the first
TableRowTop(rows, gap, i) ==
    SeqSum([j \in 1..(i - 1) |-> rows[j].height])
    + (IF i >= 2 THEN gap ELSE 0)

(* C25: a table is as wide as its widest row; every row is at left offset   *)
(* (table.width - row.width) div 2; the rows are stacked top to bottom in   *)
(* document order, each on its own rows of the result (with at most the one *)
(* blank row of a where clause between the first and the second); and the   *)
(* table baseline is its height div 2, whatever the baselines of its rows.  *)
C25_TableGeometry ==
    TableWithRows =>
        LET rows == TableRowBoxes \o <<>>
            gap == box.height
                   - SeqSum([i \in 1..Len(rows) |-> rows[i].height])
        IN  /\ box.width = SeqMax([i \in 1..Len(rows) |-> rows[i].width])
            /\ gap \in {0, 1}
            /\ gap = 1 => Len(rows) >= 2
            /\ box.baseline = box.height \div 2
            /\ \A i \in 1..Len(rows) :
                  AppearsAt(rows[i], (box.width - rows[i].width) \div 2,
                            TableRowTop(rows, gap, i))

\* a table of three rows of different widths, one of them with a raised
\* baseline: some row is indented and the baseline is the middle row
C25_Witness ==
    /\ TableWithRows
    /\ Len(TableRowElems) = 3
    /\ \E i \in 1..3 : TableRowBoxes[i].baseline > 0
    /\ \E i \in 1..3 : (box.width - TableRowBoxes[i].width) \div 2 > 0
    /\ box.baseline = box.height \div 2
    /\ box.height >= 5

\* a fenced group with at least one non-empty child has been laid out
FencedLaidOut ==
    /\ pc = "done" /\ elem.tag = "mfenced"
    /\ NonEmptyKids # {}

\* the boxes with width > 0, in order
NonEmptyBoxes(kid_boxes) == SelectSeq(kid_boxes, LAMBDA b : b.width > 0)

\* the boxes with the separator box between each two consecutive ones, and
\* nowhere else
Interleaved(boxes, separators) ==
    Join([i \in 1..Len(boxes) |->
            IF i < Len(boxes) /\ separators # <<>>
            THEN <<boxes[i], MathBox(separators)>>
            ELSE <<boxes[i]>>])

\* The result is the fenced group around content: on one row the opening
\* delimiter, the content and the closing delimiter; on several rows the
\* content from column 1 in a box two columns wider.
IsFencedAround(content) ==
    IF content.height = 1
    THEN box.content = <<get(elem, "open", <<"(">>) \o content.content[1]
                           \o get(elem, "close", <<")">>)>>
    ELSE /\ box.width = content.width + 2
         /\ AppearsAt(content, 1, 0)

(* C26: a fenced group lays out every child and puts the separator string   *)
(* only between two consecutive non-empty children: with m >= 1 non-empty   *)
(* children the content holds exactly m - 1 separator boxes, each between   *)
(* two non-empty child boxes, none after the last non-empty child and none  *)
(* before the first.  The code puts a separator after every non-empty child *)
(* that is not the last child of the group, so a non-empty child followed   *)
(* only by empty ones is followed by a separator.                           *)
C26_SeparatorsBetweenNonEmpty ==
    FencedLaidOut =>
        IsFencedAround(
            horizontal_concat(
                Interleaved(NonEmptyBoxes(KidBoxTuple),
                            get(elem, "separators", <<",">>))))

\* the delimiters of the fenced group elem
OpenDelim == get(elem, "open", <<"(">>)
CloseDelim == get(elem, "close", <<")">>)

\* the piece of a delimiter of h rows on row y: the upper cap on row 0, the
\* lower cap on row h - 1, the middle piece between them
DelimiterPiece(h, y, cap_top, extension, cap_bottom) ==
    IF y = 0 THEN cap_top ELSE IF y = h - 1 THEN cap_bottom ELSE extension

\* the glyph of the opening delimiter on row y of h
OpeningPiece(h, y) ==
    IF OpenDelim = <<"(">>
    THEN DelimiterPiece(h, y, LPAREN_UPPER, LPAREN_EXT, LPAREN_LOWER)
    ELSE DelimiterPiece(h, y, LBRACK_UPPER, LBRACK_EXT, LBRACK_LOWER)

\* the glyph of the closing delimiter on row y of h
ClosingPiece(h, y) ==
    IF CloseDelim = <<")">>
    THEN DelimiterPiece(h, y, RPAREN_UPPER, RPAREN_EXT, RPAREN_LOWER)
    ELSE DelimiterPiece(h, y, RBRACK_UPPER, RBRACK_EXT, RBRACK_LOWER)

\* a fenced group in parentheses or brackets has been laid out
ParenGroupLaidOut ==
    /\ pc = "done" /\ elem.tag = "mfenced"
    /\ OpenDelim \in {<<"(">>, <<"[">>}
    /\ CloseDelim \in {<<")">>, <<"]">>}

(* C27: a fenced group in parentheses or brackets whose content has h >= 2  *)
(* rows has width content.width + 2 and the content's height and baseline;  *)
(* column 0 holds the opening glyph on every row (upper cap on row 0, lower *)
(* cap on row h - 1, the middle glyph on rows 1..h-2), the last column the  *)
(* matching closing glyph on every row, and the content is copied unchanged *)
(* from column 1.  Single-line content is the one row open + content +      *)
(* close.                                                                   *)
C27_MultiLineDelimiters ==
    ParenGroupLaidOut =>
        LET content == FencedContent
            h == content.height
        IN  IF h >= 2
            THEN /\ box.width = content.width + 2
                 /\ box.height = h
                 /\ box.baseline = content.baseline
                 /\ \A y \in 0..(h - 1) :
                       /\ box.content[y + 1][1] = OpeningPiece(h, y)
                       /\ box.content[y + 1][box.width] = ClosingPiece(h, y)
                 /\ AppearsAt(content, 1, 0)
            ELSE IsSingleLine(OpenDelim \o content.content[1] \o CloseDelim)

\* brackets of five rows around two children and a separator
C27_Witness ==
    /\ ParenGroupLaidOut
    /\ OpenDelim = <<"[">> /\ len(elem) >= 2
    /\ box.height = 5
    /\ box.content[1][1] = LBRACK_UPPER /\ box.content[3][1] = LBRACK_EXT
    /\ box.content[5][box.width] = RBRACK_LOWER
    /\ \E x \in 1..box.width : box.content[box.baseline + 1][x] = ";"


\* three boxes have been concatenated
ThreeConcatenated == pc = "concat" /\ len(elem) = 3

(* C28: horizontal_concat is associative: for all boxes a, b and c, empty   *)
(* ones included, horizontal_concat([a, horizontal_concat([b, c])]) and     *)
(* horizontal_concat([horizontal_concat([a, b]), c]) both equal             *)
(* horizontal_concat([a, b, c]), the box of the state, in width, height,    *)
(* baseline and content.                                                    *)
C28_ConcatAssociative ==
    ThreeConcatenated =>
        LET kid_boxes == KidBoxTuple
            a == kid_boxes[1]
            b == kid_boxes[2]
            c == kid_boxes[3]
        IN  /\ horizontal_concat(<<a, horizontal_concat(<<b, c>>)>>) = box
            /\ horizontal_concat(<<horizontal_concat(<<a, b>>), c>>) = box

\* three non-empty boxes of three different baselines, the middle one the
\* tallest
C28_Witness ==
    /\ ThreeConcatenated
    /\ LET kid_boxes == KidBoxTuple
       IN  /\ \A i \in 1..3 : kid_boxes[i].width > 0
           /\ kid_boxes[1].baseline < kid_boxes[3].baseline
           /\ kid_boxes[3].baseline < kid_boxes[2].baseline
           /\ box.height > kid_boxes[2].height

\* an empty box between two boxes of several rows
C28_WitnessEmpty ==
    /\ ThreeConcatenated
    /\ LET kid_boxes == KidBoxTuple
       IN  /\ kid_boxes[2].width = 0
           /\ kid_boxes[1].height > 1 /\ kid_boxes[3].height > 1
           /\ kid_boxes[1].baseline # kid_boxes[3].baseline


\* Every non-blank cell of the radicand, moved right by x_offset and down
\* by one row, is inside the grid of the result, is the cell of the result
\* there, and is a blank cell of the radical lines (index included).
RadicandClearOf(radicand, lines, x_offset) ==
    \A y \in 0..(radicand.height - 1) : \A x \in 0..(radicand.width - 1) :
        get_char(radicand, x, y) # " " =>
            /\ x_offset + x < box.width
            /\ y + 1 < box.height
            /\ box.content[y + 2][x_offset + x + 1] = get_char(radicand, x, y)
            /\ LineChar(lines, x_offset + x, y + 1) = " "

\* a square root has been laid out on several rows
SqrtMultiLine == SqrtLaidOut /\ box.height > 1

(* C29: in the multi-line square-root and nth-root layouts every non-blank  *)
(* radicand cell lands inside the grid of the result (the bounds guard      *)
(* discards none) and on a cell that holds no radical glyph and no index    *)
(* character: the radicand is not truncated and neither overwrites the      *)
(* radical nor is overwritten by it.                                        *)
C29_RadicandClearOfRadical ==
    /\ SqrtMultiLine =>
          LET inner == SqrtRadicand(KidBoxTuple)
          IN  RadicandClearOf(inner,
                  generate_sqrt_radical(inner.height + 1, inner.width + 4),
                  sqrt_content_x_offset(inner.height))
    /\ NthRootMultiLine =>
          LET kid_boxes == KidBoxTuple
              radicand == kid_boxes[1]
              index_text == IndexText(kid_boxes[2])
          IN  RadicandClearOf(radicand,
                  nth_root_modified_lines(
                      nth_root_lines(radicand.width, radicand.height),
                      index_text),
                  nth_root_content_x_offset(radicand.height,
                                            Len(index_text)))

\* an nth root whose index is wider than its radicand is tall, with a
\* non-blank cell in the first column of the radicand's last row
C29_Witness ==
    /\ NthRootMultiLine
    /\ LET kid_boxes == KidBoxTuple
           radicand == kid_boxes[1]
           h == radicand.height
           k == Len(IndexText(kid_boxes[2]))
       IN  /\ h >= 2 /\ k > h
           /\ radicand.content[h][1] # " "
           /\ box.content[h + 1][h + k + 5] = radicand.content[h][1]

\* a square root of a radicand of three rows or more
C29_WitnessSqrt ==
    /\ SqrtMultiLine
    /\ LET inner == SqrtRadicand(KidBoxTuple)
       IN  /\ inner.height >= 3
           /\ \E x \in 1..inner.width :
                 /\ inner.content[1][x] # " "
                 /\ box.content[2][inner.height + 3 + x] = inner.content[1][x]


\* a fenced group has been laid out on several rows, which it is when its
\* content has several rows
FencedMultiLine ==
    /\ pc = "done" /\ elem.tag = "mfenced"
    /\ box.height >= 2

\* column x of the result, counted from 0, is blank on every row
BlankColumn(x) == \A y \in 1..box.height : box.content[y][x + 1] = " "

\* the cells of the result that hold a character of the delimiter string
\* are cells of the content that hold it: nothing was drawn for it
NotDrawn(delim, content) ==
    \A y \in 1..box.height : \A x \in 1..box.width :
        (\E j \in 1..Len(delim) : box.content[y][x] = delim[j]) =>
            /\ 1 < x /\ x < box.width
            /\ get_char(content, x - 2, y - 1) = box.content[y][x]

(* C30: in a fenced group with multi-line content a delimiter is drawn only *)
(* for the recognised characters: when the opening delimiter is none of     *)
(* '{', '(' and '[', column 0 of every row is blank; when the closing       *)
(* delimiter is neither ')' nor ']', or the opening delimiter is '{', the   *)
(* last column of every row is blank; the delimiter that is not drawn       *)
(* appears nowhere in the output, and the width is still content.width + 2, *)
(* the content being copied from column 1.                                  *)
C30_UnrecognisedDelimitersBlank ==
    FencedMultiLine =>
        LET content == FencedContent
            open_blank == OpenDelim \notin {<<"{">>, <<"(">>, <<"[">>}
            close_blank == \/ CloseDelim \notin {<<")">>, <<"]">>}
                           \/ OpenDelim = <<"{">>
        IN  /\ (open_blank \/ close_blank) =>
                  /\ box.width = content.width + 2
                  /\ box.height = content.height
                  /\ AppearsAt(content, 1, 0)
            /\ open_blank =>
                  /\ BlankColumn(0)
                  /\ NotDrawn(OpenDelim, content)
            /\ close_blank =>
                  /\ BlankColumn(box.width - 1)
                  /\ NotDrawn(CloseDelim, content)

\* a group opened by the default parenthesis and closed by '|', over
\* content of three rows: the parenthesis is drawn, the last column blank
C30_Witness ==
    /\ FencedMultiLine
    /\ OpenDelim = <<"(">> /\ CloseDelim = <<"|">>
    /\ box.height = 3
    /\ box.content[2][1] = LPAREN_EXT
    /\ BlankColumn(box.width - 1)
    /\ box.content[box.baseline + 1][2] # " "

\* a group between two '|' over content of several rows: both columns blank
C30_WitnessBoth ==
    /\ FencedMultiLine
    /\ OpenDelim = <<"|">> /\ CloseDelim = <<"|">>
    /\ BlankColumn(0) /\ BlankColumn(box.width - 1)
    /\ box.width > 2

====
